---- MODULE Spec2Model ----
(***************************************************************************)
(* A model of src/convert.py: human_limit_to_bucket and its helper         *)
(* _parse_duration_seconds, which turn a quota phrase such as              *)
(* "20 messages per week" into token-bucket parameters.                    *)
(*                                                                         *)
(* A character is its Unicode code point and a text is a sequence of code  *)
(* points, so that str.strip, str.lower and the character classes \s, \d,  *)
(* \w of the regular expressions are those of Python 3 on str (tables of   *)
(* Unicode 14.0.0, as in CPython 3.11).  The regular expressions are       *)
(* modelled by what they match, character by character, with Python's      *)
(* leftmost-first, ordered-alternation, greedy semantics.  A position is    *)
(* 1-based; the "end" of a match is the index of the first character after *)
(* it.  An optional value is a sequence of length 0 (None) or 1.  A scan   *)
(* over the positions lo..hi is written as the scan over one half of them  *)
(* followed by the scan over the other half, which keeps the evaluation of *)
(* a long text shallow.                                                    *)
(*                                                                         *)
(* A Python int is a natural number of any size, written as a sequence of  *)
(* limbs; a Python float is a binary64: every conversion, product and      *)
(* quotient is rounded to the nearest double, ties to even, and overflows  *)
(* to infinity.                                                            *)
(***************************************************************************)
EXTENDS Integers, Sequences, FiniteSets

(***************************************************************************)
(* Sequences                                                               *)
(***************************************************************************)
Range(f) == {f[k] : k \in DOMAIN f}

Min(S) == CHOOSE x \in S : \A y \in S : x <= y

Max(S) == CHOOSE x \in S : \A y \in S : x >= y

\* q[k]
Nth(q, k) == Head(SubSeq(q, k, k))

\* q[-1] and q[:-1]
Last(q) == Nth(q, Len(q))

Front(q) == SubSeq(q, 1, Len(q) - 1)

\* n times the element x
Repeat(x, n) == [k \in 1..n |-> x]

\* hi, hi-1, ..., lo
Desc(hi, lo) == [k \in 1..(hi - lo + 1) |-> hi - k + 1]

\* The first candidate, in the order given, that is a match (an optional
\* value that is present): the backtracking order of the regex engine.
\* y, with x worked out first.  An argument is worked out when it is first
\* needed; a loop that hands its result so far to its next step has each
\* step worked out before the next one starts, as in the source.
Then(x, y) == IF x = x THEN y ELSE y

\* m if it is a match, otherwise rest
OrElse(m, rest) == IF m # <<>> THEN m ELSE rest

RECURSIVE FirstNonEmptyIn(_, _, _)
FirstNonEmptyIn(tried, lo, hi) ==
    IF lo > hi THEN <<>>
    ELSE IF lo = hi THEN Nth(tried, lo)
    ELSE OrElse(FirstNonEmptyIn(tried, lo, (lo + hi) \div 2),
                FirstNonEmptyIn(tried, (lo + hi) \div 2 + 1, hi))

FirstNonEmpty(tried) == FirstNonEmptyIn(tried, 1, Len(tried))

(***************************************************************************)
(* Characters: the tables of the Python runtime.  Each table lists the     *)
(* characters from U+0080 on; the ASCII part is written out in the         *)
(* operator that uses the table.                                           *)
(***************************************************************************)
\* c lies in one of the ranges <<lo, hi>> of the table
InRanges(c, table) ==
    \E k \in 1..Len(table) : Nth(table, k)[1] <= c /\ c <= Nth(table, k)[2]

\* White space beyond ASCII: str.isspace, which str.strip and \s use.
SpaceRanges ==
<<
    <<133, 133>>, <<160, 160>>, <<5760, 5760>>, <<8192, 8202>>, <<8232, 8233>>, <<8239, 8239>>,
    <<8287, 8287>>, <<12288, 12288>> >>

\* The zero of every run of ten decimal digits (category Nd) beyond ASCII.
DecimalZeros ==
<<
    1632, 1776, 1984, 2406, 2534, 2662, 2790, 2918, 3046, 3174,
    3302, 3430, 3558, 3664, 3792, 3872, 4160, 4240, 6112, 6160,
    6470, 6608, 6784, 6800, 6992, 7088, 7232, 7248, 42528, 43216,
    43264, 43472, 43504, 43600, 44016, 65296, 66720, 68912, 69734, 69872,
    69942, 70096, 70384, 70736, 70864, 71248, 71360, 71472, 71904, 72016,
    72784, 73040, 73120, 92768, 92864, 93008, 120782, 120792, 120802, 120812,
    120822, 123200, 123632, 125264, 130032 >>

\* Alphanumeric characters beyond ASCII: str.isalnum, which \w and \b use.
WordRanges ==
<<
    <<170, 170>>, <<178, 179>>, <<181, 181>>, <<185, 186>>, <<188, 190>>, <<192, 214>>,
    <<216, 246>>, <<248, 705>>, <<710, 721>>, <<736, 740>>, <<748, 748>>, <<750, 750>>,
    <<880, 884>>, <<886, 887>>, <<890, 893>>, <<895, 895>>, <<902, 902>>, <<904, 906>>,
    <<908, 908>>, <<910, 929>>, <<931, 1013>>, <<1015, 1153>>, <<1162, 1327>>, <<1329, 1366>>,
    <<1369, 1369>>, <<1376, 1416>>, <<1488, 1514>>, <<1519, 1522>>, <<1568, 1610>>, <<1632, 1641>>,
    <<1646, 1647>>, <<1649, 1747>>, <<1749, 1749>>, <<1765, 1766>>, <<1774, 1788>>, <<1791, 1791>>,
    <<1808, 1808>>, <<1810, 1839>>, <<1869, 1957>>, <<1969, 1969>>, <<1984, 2026>>, <<2036, 2037>>,
    <<2042, 2042>>, <<2048, 2069>>, <<2074, 2074>>, <<2084, 2084>>, <<2088, 2088>>, <<2112, 2136>>,
    <<2144, 2154>>, <<2160, 2183>>, <<2185, 2190>>, <<2208, 2249>>, <<2308, 2361>>, <<2365, 2365>>,
    <<2384, 2384>>, <<2392, 2401>>, <<2406, 2415>>, <<2417, 2432>>, <<2437, 2444>>, <<2447, 2448>>,
    <<2451, 2472>>, <<2474, 2480>>, <<2482, 2482>>, <<2486, 2489>>, <<2493, 2493>>, <<2510, 2510>>,
    <<2524, 2525>>, <<2527, 2529>>, <<2534, 2545>>, <<2548, 2553>>, <<2556, 2556>>, <<2565, 2570>>,
    <<2575, 2576>>, <<2579, 2600>>, <<2602, 2608>>, <<2610, 2611>>, <<2613, 2614>>, <<2616, 2617>>,
    <<2649, 2652>>, <<2654, 2654>>, <<2662, 2671>>, <<2674, 2676>>, <<2693, 2701>>, <<2703, 2705>>,
    <<2707, 2728>>, <<2730, 2736>>, <<2738, 2739>>, <<2741, 2745>>, <<2749, 2749>>, <<2768, 2768>>,
    <<2784, 2785>>, <<2790, 2799>>, <<2809, 2809>>, <<2821, 2828>>, <<2831, 2832>>, <<2835, 2856>>,
    <<2858, 2864>>, <<2866, 2867>>, <<2869, 2873>>, <<2877, 2877>>, <<2908, 2909>>, <<2911, 2913>>,
    <<2918, 2927>>, <<2929, 2935>>, <<2947, 2947>>, <<2949, 2954>>, <<2958, 2960>>, <<2962, 2965>>,
    <<2969, 2970>>, <<2972, 2972>>, <<2974, 2975>>, <<2979, 2980>>, <<2984, 2986>>, <<2990, 3001>>,
    <<3024, 3024>>, <<3046, 3058>>, <<3077, 3084>>, <<3086, 3088>>, <<3090, 3112>>, <<3114, 3129>>,
    <<3133, 3133>>, <<3160, 3162>>, <<3165, 3165>>, <<3168, 3169>>, <<3174, 3183>>, <<3192, 3198>>,
    <<3200, 3200>>, <<3205, 3212>>, <<3214, 3216>>, <<3218, 3240>>, <<3242, 3251>>, <<3253, 3257>>,
    <<3261, 3261>>, <<3293, 3294>>, <<3296, 3297>>, <<3302, 3311>>, <<3313, 3314>>, <<3332, 3340>>,
    <<3342, 3344>>, <<3346, 3386>>, <<3389, 3389>>, <<3406, 3406>>, <<3412, 3414>>, <<3416, 3425>>,
    <<3430, 3448>>, <<3450, 3455>>, <<3461, 3478>>, <<3482, 3505>>, <<3507, 3515>>, <<3517, 3517>>,
    <<3520, 3526>>, <<3558, 3567>>, <<3585, 3632>>, <<3634, 3635>>, <<3648, 3654>>, <<3664, 3673>>,
    <<3713, 3714>>, <<3716, 3716>>, <<3718, 3722>>, <<3724, 3747>>, <<3749, 3749>>, <<3751, 3760>>,
    <<3762, 3763>>, <<3773, 3773>>, <<3776, 3780>>, <<3782, 3782>>, <<3792, 3801>>, <<3804, 3807>>,
    <<3840, 3840>>, <<3872, 3891>>, <<3904, 3911>>, <<3913, 3948>>, <<3976, 3980>>, <<4096, 4138>>,
    <<4159, 4169>>, <<4176, 4181>>, <<4186, 4189>>, <<4193, 4193>>, <<4197, 4198>>, <<4206, 4208>>,
    <<4213, 4225>>, <<4238, 4238>>, <<4240, 4249>>, <<4256, 4293>>, <<4295, 4295>>, <<4301, 4301>>,
    <<4304, 4346>>, <<4348, 4680>>, <<4682, 4685>>, <<4688, 4694>>, <<4696, 4696>>, <<4698, 4701>>,
    <<4704, 4744>>, <<4746, 4749>>, <<4752, 4784>>, <<4786, 4789>>, <<4792, 4798>>, <<4800, 4800>>,
    <<4802, 4805>>, <<4808, 4822>>, <<4824, 4880>>, <<4882, 4885>>, <<4888, 4954>>, <<4969, 4988>>,
    <<4992, 5007>>, <<5024, 5109>>, <<5112, 5117>>, <<5121, 5740>>, <<5743, 5759>>, <<5761, 5786>>,
    <<5792, 5866>>, <<5870, 5880>>, <<5888, 5905>>, <<5919, 5937>>, <<5952, 5969>>, <<5984, 5996>>,
    <<5998, 6000>>, <<6016, 6067>>, <<6103, 6103>>, <<6108, 6108>>, <<6112, 6121>>, <<6128, 6137>>,
    <<6160, 6169>>, <<6176, 6264>>, <<6272, 6276>>, <<6279, 6312>>, <<6314, 6314>>, <<6320, 6389>>,
    <<6400, 6430>>, <<6470, 6509>>, <<6512, 6516>>, <<6528, 6571>>, <<6576, 6601>>, <<6608, 6618>>,
    <<6656, 6678>>, <<6688, 6740>>, <<6784, 6793>>, <<6800, 6809>>, <<6823, 6823>>, <<6917, 6963>>,
    <<6981, 6988>>, <<6992, 7001>>, <<7043, 7072>>, <<7086, 7141>>, <<7168, 7203>>, <<7232, 7241>>,
    <<7245, 7293>>, <<7296, 7304>>, <<7312, 7354>>, <<7357, 7359>>, <<7401, 7404>>, <<7406, 7411>>,
    <<7413, 7414>>, <<7418, 7418>>, <<7424, 7615>>, <<7680, 7957>>, <<7960, 7965>>, <<7968, 8005>>,
    <<8008, 8013>>, <<8016, 8023>>, <<8025, 8025>>, <<8027, 8027>>, <<8029, 8029>>, <<8031, 8061>>,
    <<8064, 8116>>, <<8118, 8124>>, <<8126, 8126>>, <<8130, 8132>>, <<8134, 8140>>, <<8144, 8147>>,
    <<8150, 8155>>, <<8160, 8172>>, <<8178, 8180>>, <<8182, 8188>>, <<8304, 8305>>, <<8308, 8313>>,
    <<8319, 8329>>, <<8336, 8348>>, <<8450, 8450>>, <<8455, 8455>>, <<8458, 8467>>, <<8469, 8469>>,
    <<8473, 8477>>, <<8484, 8484>>, <<8486, 8486>>, <<8488, 8488>>, <<8490, 8493>>, <<8495, 8505>>,
    <<8508, 8511>>, <<8517, 8521>>, <<8526, 8526>>, <<8528, 8585>>, <<9312, 9371>>, <<9450, 9471>>,
    <<10102, 10131>>, <<11264, 11492>>, <<11499, 11502>>, <<11506, 11507>>, <<11517, 11517>>, <<11520, 11557>>,
    <<11559, 11559>>, <<11565, 11565>>, <<11568, 11623>>, <<11631, 11631>>, <<11648, 11670>>, <<11680, 11686>>,
    <<11688, 11694>>, <<11696, 11702>>, <<11704, 11710>>, <<11712, 11718>>, <<11720, 11726>>, <<11728, 11734>>,
    <<11736, 11742>>, <<11823, 11823>>, <<12293, 12295>>, <<12321, 12329>>, <<12337, 12341>>, <<12344, 12348>>,
    <<12353, 12438>>, <<12445, 12447>>, <<12449, 12538>>, <<12540, 12543>>, <<12549, 12591>>, <<12593, 12686>>,
    <<12690, 12693>>, <<12704, 12735>>, <<12784, 12799>>, <<12832, 12841>>, <<12872, 12879>>, <<12881, 12895>>,
    <<12928, 12937>>, <<12977, 12991>>, <<13312, 19903>>, <<19968, 42124>>, <<42192, 42237>>, <<42240, 42508>>,
    <<42512, 42539>>, <<42560, 42606>>, <<42623, 42653>>, <<42656, 42735>>, <<42775, 42783>>, <<42786, 42888>>,
    <<42891, 42954>>, <<42960, 42961>>, <<42963, 42963>>, <<42965, 42969>>, <<42994, 43009>>, <<43011, 43013>>,
    <<43015, 43018>>, <<43020, 43042>>, <<43056, 43061>>, <<43072, 43123>>, <<43138, 43187>>, <<43216, 43225>>,
    <<43250, 43255>>, <<43259, 43259>>, <<43261, 43262>>, <<43264, 43301>>, <<43312, 43334>>, <<43360, 43388>>,
    <<43396, 43442>>, <<43471, 43481>>, <<43488, 43492>>, <<43494, 43518>>, <<43520, 43560>>, <<43584, 43586>>,
    <<43588, 43595>>, <<43600, 43609>>, <<43616, 43638>>, <<43642, 43642>>, <<43646, 43695>>, <<43697, 43697>>,
    <<43701, 43702>>, <<43705, 43709>>, <<43712, 43712>>, <<43714, 43714>>, <<43739, 43741>>, <<43744, 43754>>,
    <<43762, 43764>>, <<43777, 43782>>, <<43785, 43790>>, <<43793, 43798>>, <<43808, 43814>>, <<43816, 43822>>,
    <<43824, 43866>>, <<43868, 43881>>, <<43888, 44002>>, <<44016, 44025>>, <<44032, 55203>>, <<55216, 55238>>,
    <<55243, 55291>>, <<63744, 64109>>, <<64112, 64217>>, <<64256, 64262>>, <<64275, 64279>>, <<64285, 64285>>,
    <<64287, 64296>>, <<64298, 64310>>, <<64312, 64316>>, <<64318, 64318>>, <<64320, 64321>>, <<64323, 64324>>,
    <<64326, 64433>>, <<64467, 64829>>, <<64848, 64911>>, <<64914, 64967>>, <<65008, 65019>>, <<65136, 65140>>,
    <<65142, 65276>>, <<65296, 65305>>, <<65313, 65338>>, <<65345, 65370>>, <<65382, 65470>>, <<65474, 65479>>,
    <<65482, 65487>>, <<65490, 65495>>, <<65498, 65500>>, <<65536, 65547>>, <<65549, 65574>>, <<65576, 65594>>,
    <<65596, 65597>>, <<65599, 65613>>, <<65616, 65629>>, <<65664, 65786>>, <<65799, 65843>>, <<65856, 65912>>,
    <<65930, 65931>>, <<66176, 66204>>, <<66208, 66256>>, <<66273, 66299>>, <<66304, 66339>>, <<66349, 66378>>,
    <<66384, 66421>>, <<66432, 66461>>, <<66464, 66499>>, <<66504, 66511>>, <<66513, 66517>>, <<66560, 66717>>,
    <<66720, 66729>>, <<66736, 66771>>, <<66776, 66811>>, <<66816, 66855>>, <<66864, 66915>>, <<66928, 66938>>,
    <<66940, 66954>>, <<66956, 66962>>, <<66964, 66965>>, <<66967, 66977>>, <<66979, 66993>>, <<66995, 67001>>,
    <<67003, 67004>>, <<67072, 67382>>, <<67392, 67413>>, <<67424, 67431>>, <<67456, 67461>>, <<67463, 67504>>,
    <<67506, 67514>>, <<67584, 67589>>, <<67592, 67592>>, <<67594, 67637>>, <<67639, 67640>>, <<67644, 67644>>,
    <<67647, 67669>>, <<67672, 67702>>, <<67705, 67742>>, <<67751, 67759>>, <<67808, 67826>>, <<67828, 67829>>,
    <<67835, 67867>>, <<67872, 67897>>, <<67968, 68023>>, <<68028, 68047>>, <<68050, 68096>>, <<68112, 68115>>,
    <<68117, 68119>>, <<68121, 68149>>, <<68160, 68168>>, <<68192, 68222>>, <<68224, 68255>>, <<68288, 68295>>,
    <<68297, 68324>>, <<68331, 68335>>, <<68352, 68405>>, <<68416, 68437>>, <<68440, 68466>>, <<68472, 68497>>,
    <<68521, 68527>>, <<68608, 68680>>, <<68736, 68786>>, <<68800, 68850>>, <<68858, 68899>>, <<68912, 68921>>,
    <<69216, 69246>>, <<69248, 69289>>, <<69296, 69297>>, <<69376, 69415>>, <<69424, 69445>>, <<69457, 69460>>,
    <<69488, 69505>>, <<69552, 69579>>, <<69600, 69622>>, <<69635, 69687>>, <<69714, 69743>>, <<69745, 69746>>,
    <<69749, 69749>>, <<69763, 69807>>, <<69840, 69864>>, <<69872, 69881>>, <<69891, 69926>>, <<69942, 69951>>,
    <<69956, 69956>>, <<69959, 69959>>, <<69968, 70002>>, <<70006, 70006>>, <<70019, 70066>>, <<70081, 70084>>,
    <<70096, 70106>>, <<70108, 70108>>, <<70113, 70132>>, <<70144, 70161>>, <<70163, 70187>>, <<70272, 70278>>,
    <<70280, 70280>>, <<70282, 70285>>, <<70287, 70301>>, <<70303, 70312>>, <<70320, 70366>>, <<70384, 70393>>,
    <<70405, 70412>>, <<70415, 70416>>, <<70419, 70440>>, <<70442, 70448>>, <<70450, 70451>>, <<70453, 70457>>,
    <<70461, 70461>>, <<70480, 70480>>, <<70493, 70497>>, <<70656, 70708>>, <<70727, 70730>>, <<70736, 70745>>,
    <<70751, 70753>>, <<70784, 70831>>, <<70852, 70853>>, <<70855, 70855>>, <<70864, 70873>>, <<71040, 71086>>,
    <<71128, 71131>>, <<71168, 71215>>, <<71236, 71236>>, <<71248, 71257>>, <<71296, 71338>>, <<71352, 71352>>,
    <<71360, 71369>>, <<71424, 71450>>, <<71472, 71483>>, <<71488, 71494>>, <<71680, 71723>>, <<71840, 71922>>,
    <<71935, 71942>>, <<71945, 71945>>, <<71948, 71955>>, <<71957, 71958>>, <<71960, 71983>>, <<71999, 71999>>,
    <<72001, 72001>>, <<72016, 72025>>, <<72096, 72103>>, <<72106, 72144>>, <<72161, 72161>>, <<72163, 72163>>,
    <<72192, 72192>>, <<72203, 72242>>, <<72250, 72250>>, <<72272, 72272>>, <<72284, 72329>>, <<72349, 72349>>,
    <<72368, 72440>>, <<72704, 72712>>, <<72714, 72750>>, <<72768, 72768>>, <<72784, 72812>>, <<72818, 72847>>,
    <<72960, 72966>>, <<72968, 72969>>, <<72971, 73008>>, <<73030, 73030>>, <<73040, 73049>>, <<73056, 73061>>,
    <<73063, 73064>>, <<73066, 73097>>, <<73112, 73112>>, <<73120, 73129>>, <<73440, 73458>>, <<73648, 73648>>,
    <<73664, 73684>>, <<73728, 74649>>, <<74752, 74862>>, <<74880, 75075>>, <<77712, 77808>>, <<77824, 78894>>,
    <<82944, 83526>>, <<92160, 92728>>, <<92736, 92766>>, <<92768, 92777>>, <<92784, 92862>>, <<92864, 92873>>,
    <<92880, 92909>>, <<92928, 92975>>, <<92992, 92995>>, <<93008, 93017>>, <<93019, 93025>>, <<93027, 93047>>,
    <<93053, 93071>>, <<93760, 93846>>, <<93952, 94026>>, <<94032, 94032>>, <<94099, 94111>>, <<94176, 94177>>,
    <<94179, 94179>>, <<94208, 100343>>, <<100352, 101589>>, <<101632, 101640>>, <<110576, 110579>>, <<110581, 110587>>,
    <<110589, 110590>>, <<110592, 110882>>, <<110928, 110930>>, <<110948, 110951>>, <<110960, 111355>>, <<113664, 113770>>,
    <<113776, 113788>>, <<113792, 113800>>, <<113808, 113817>>, <<119520, 119539>>, <<119648, 119672>>, <<119808, 119892>>,
    <<119894, 119964>>, <<119966, 119967>>, <<119970, 119970>>, <<119973, 119974>>, <<119977, 119980>>, <<119982, 119993>>,
    <<119995, 119995>>, <<119997, 120003>>, <<120005, 120069>>, <<120071, 120074>>, <<120077, 120084>>, <<120086, 120092>>,
    <<120094, 120121>>, <<120123, 120126>>, <<120128, 120132>>, <<120134, 120134>>, <<120138, 120144>>, <<120146, 120485>>,
    <<120488, 120512>>, <<120514, 120538>>, <<120540, 120570>>, <<120572, 120596>>, <<120598, 120628>>, <<120630, 120654>>,
    <<120656, 120686>>, <<120688, 120712>>, <<120714, 120744>>, <<120746, 120770>>, <<120772, 120779>>, <<120782, 120831>>,
    <<122624, 122654>>, <<123136, 123180>>, <<123191, 123197>>, <<123200, 123209>>, <<123214, 123214>>, <<123536, 123565>>,
    <<123584, 123627>>, <<123632, 123641>>, <<124896, 124902>>, <<124904, 124907>>, <<124909, 124910>>, <<124912, 124926>>,
    <<124928, 125124>>, <<125127, 125135>>, <<125184, 125251>>, <<125259, 125259>>, <<125264, 125273>>, <<126065, 126123>>,
    <<126125, 126127>>, <<126129, 126132>>, <<126209, 126253>>, <<126255, 126269>>, <<126464, 126467>>, <<126469, 126495>>,
    <<126497, 126498>>, <<126500, 126500>>, <<126503, 126503>>, <<126505, 126514>>, <<126516, 126519>>, <<126521, 126521>>,
    <<126523, 126523>>, <<126530, 126530>>, <<126535, 126535>>, <<126537, 126537>>, <<126539, 126539>>, <<126541, 126543>>,
    <<126545, 126546>>, <<126548, 126548>>, <<126551, 126551>>, <<126553, 126553>>, <<126555, 126555>>, <<126557, 126557>>,
    <<126559, 126559>>, <<126561, 126562>>, <<126564, 126564>>, <<126567, 126570>>, <<126572, 126578>>, <<126580, 126583>>,
    <<126585, 126588>>, <<126590, 126590>>, <<126592, 126601>>, <<126603, 126619>>, <<126625, 126627>>, <<126629, 126633>>,
    <<126635, 126651>>, <<127232, 127244>>, <<130032, 130041>>, <<131072, 173791>>, <<173824, 177976>>, <<177984, 178205>>,
    <<178208, 183969>>, <<183984, 191456>>, <<194560, 195101>>, <<196608, 201546>> >>

\* str.lower beyond ASCII, for the characters it maps to one other character:
\* <<lo, hi, step, delta>> maps lo, lo + step, ..., hi to itself + delta.
LowerRuns ==
<<
    <<192, 214, 1, 32>>, <<216, 222, 1, 32>>, <<256, 302, 2, 1>>, <<306, 310, 2, 1>>, <<313, 327, 2, 1>>, <<330, 374, 2, 1>>,
    <<376, 376, 1, -121>>, <<377, 381, 2, 1>>, <<385, 385, 1, 210>>, <<386, 388, 2, 1>>, <<390, 390, 1, 206>>, <<391, 391, 1, 1>>,
    <<393, 394, 1, 205>>, <<395, 395, 1, 1>>, <<398, 398, 1, 79>>, <<399, 399, 1, 202>>, <<400, 400, 1, 203>>, <<401, 401, 1, 1>>,
    <<403, 403, 1, 205>>, <<404, 404, 1, 207>>, <<406, 406, 1, 211>>, <<407, 407, 1, 209>>, <<408, 408, 1, 1>>, <<412, 412, 1, 211>>,
    <<413, 413, 1, 213>>, <<415, 415, 1, 214>>, <<416, 420, 2, 1>>, <<422, 422, 1, 218>>, <<423, 423, 1, 1>>, <<425, 425, 1, 218>>,
    <<428, 428, 1, 1>>, <<430, 430, 1, 218>>, <<431, 431, 1, 1>>, <<433, 434, 1, 217>>, <<435, 437, 2, 1>>, <<439, 439, 1, 219>>,
    <<440, 440, 1, 1>>, <<444, 444, 1, 1>>, <<452, 452, 1, 2>>, <<453, 453, 1, 1>>, <<455, 455, 1, 2>>, <<456, 456, 1, 1>>,
    <<458, 458, 1, 2>>, <<459, 475, 2, 1>>, <<478, 494, 2, 1>>, <<497, 497, 1, 2>>, <<498, 500, 2, 1>>, <<502, 502, 1, -97>>,
    <<503, 503, 1, -56>>, <<504, 542, 2, 1>>, <<544, 544, 1, -130>>, <<546, 562, 2, 1>>, <<570, 570, 1, 10795>>, <<571, 571, 1, 1>>,
    <<573, 573, 1, -163>>, <<574, 574, 1, 10792>>, <<577, 577, 1, 1>>, <<579, 579, 1, -195>>, <<580, 580, 1, 69>>, <<581, 581, 1, 71>>,
    <<582, 590, 2, 1>>, <<880, 882, 2, 1>>, <<886, 886, 1, 1>>, <<895, 895, 1, 116>>, <<902, 902, 1, 38>>, <<904, 906, 1, 37>>,
    <<908, 908, 1, 64>>, <<910, 911, 1, 63>>, <<913, 929, 1, 32>>, <<931, 939, 1, 32>>, <<975, 975, 1, 8>>, <<984, 1006, 2, 1>>,
    <<1012, 1012, 1, -60>>, <<1015, 1015, 1, 1>>, <<1017, 1017, 1, -7>>, <<1018, 1018, 1, 1>>, <<1021, 1023, 1, -130>>, <<1024, 1039, 1, 80>>,
    <<1040, 1071, 1, 32>>, <<1120, 1152, 2, 1>>, <<1162, 1214, 2, 1>>, <<1216, 1216, 1, 15>>, <<1217, 1229, 2, 1>>, <<1232, 1326, 2, 1>>,
    <<1329, 1366, 1, 48>>, <<4256, 4293, 1, 7264>>, <<4295, 4295, 1, 7264>>, <<4301, 4301, 1, 7264>>, <<5024, 5103, 1, 38864>>, <<5104, 5109, 1, 8>>,
    <<7312, 7354, 1, -3008>>, <<7357, 7359, 1, -3008>>, <<7680, 7828, 2, 1>>, <<7838, 7838, 1, -7615>>, <<7840, 7934, 2, 1>>, <<7944, 7951, 1, -8>>,
    <<7960, 7965, 1, -8>>, <<7976, 7983, 1, -8>>, <<7992, 7999, 1, -8>>, <<8008, 8013, 1, -8>>, <<8025, 8031, 2, -8>>, <<8040, 8047, 1, -8>>,
    <<8072, 8079, 1, -8>>, <<8088, 8095, 1, -8>>, <<8104, 8111, 1, -8>>, <<8120, 8121, 1, -8>>, <<8122, 8123, 1, -74>>, <<8124, 8124, 1, -9>>,
    <<8136, 8139, 1, -86>>, <<8140, 8140, 1, -9>>, <<8152, 8153, 1, -8>>, <<8154, 8155, 1, -100>>, <<8168, 8169, 1, -8>>, <<8170, 8171, 1, -112>>,
    <<8172, 8172, 1, -7>>, <<8184, 8185, 1, -128>>, <<8186, 8187, 1, -126>>, <<8188, 8188, 1, -9>>, <<8486, 8486, 1, -7517>>, <<8490, 8490, 1, -8383>>,
    <<8491, 8491, 1, -8262>>, <<8498, 8498, 1, 28>>, <<8544, 8559, 1, 16>>, <<8579, 8579, 1, 1>>, <<9398, 9423, 1, 26>>, <<11264, 11311, 1, 48>>,
    <<11360, 11360, 1, 1>>, <<11362, 11362, 1, -10743>>, <<11363, 11363, 1, -3814>>, <<11364, 11364, 1, -10727>>, <<11367, 11371, 2, 1>>, <<11373, 11373, 1, -10780>>,
    <<11374, 11374, 1, -10749>>, <<11375, 11375, 1, -10783>>, <<11376, 11376, 1, -10782>>, <<11378, 11378, 1, 1>>, <<11381, 11381, 1, 1>>, <<11390, 11391, 1, -10815>>,
    <<11392, 11490, 2, 1>>, <<11499, 11501, 2, 1>>, <<11506, 11506, 1, 1>>, <<42560, 42604, 2, 1>>, <<42624, 42650, 2, 1>>, <<42786, 42798, 2, 1>>,
    <<42802, 42862, 2, 1>>, <<42873, 42875, 2, 1>>, <<42877, 42877, 1, -35332>>, <<42878, 42886, 2, 1>>, <<42891, 42891, 1, 1>>, <<42893, 42893, 1, -42280>>,
    <<42896, 42898, 2, 1>>, <<42902, 42920, 2, 1>>, <<42922, 42922, 1, -42308>>, <<42923, 42923, 1, -42319>>, <<42924, 42924, 1, -42315>>, <<42925, 42925, 1, -42305>>,
    <<42926, 42926, 1, -42308>>, <<42928, 42928, 1, -42258>>, <<42929, 42929, 1, -42282>>, <<42930, 42930, 1, -42261>>, <<42931, 42931, 1, 928>>, <<42932, 42946, 2, 1>>,
    <<42948, 42948, 1, -48>>, <<42949, 42949, 1, -42307>>, <<42950, 42950, 1, -35384>>, <<42951, 42953, 2, 1>>, <<42960, 42960, 1, 1>>, <<42966, 42968, 2, 1>>,
    <<42997, 42997, 1, 1>>, <<65313, 65338, 1, 32>>, <<66560, 66599, 1, 40>>, <<66736, 66771, 1, 40>>, <<66928, 66938, 1, 39>>, <<66940, 66954, 1, 39>>,
    <<66956, 66962, 1, 39>>, <<66964, 66965, 1, 39>>, <<68736, 68786, 1, 64>>, <<71840, 71871, 1, 32>>, <<93760, 93791, 1, 32>>, <<125184, 125217, 1, 34>> >>

\* Cased characters (Lowercase, Uppercase or titlecase) and case-ignorable
\* characters, which decide the lower case of a capital sigma.
CasedRanges ==
<<
    <<170, 170>>, <<181, 181>>, <<186, 186>>, <<192, 214>>, <<216, 246>>, <<248, 442>>,
    <<444, 447>>, <<452, 659>>, <<661, 696>>, <<704, 705>>, <<736, 740>>, <<837, 837>>,
    <<880, 883>>, <<886, 887>>, <<890, 893>>, <<895, 895>>, <<902, 902>>, <<904, 906>>,
    <<908, 908>>, <<910, 929>>, <<931, 1013>>, <<1015, 1153>>, <<1162, 1327>>, <<1329, 1366>>,
    <<1376, 1416>>, <<4256, 4293>>, <<4295, 4295>>, <<4301, 4301>>, <<4304, 4346>>, <<4349, 4351>>,
    <<5024, 5109>>, <<5112, 5117>>, <<7296, 7304>>, <<7312, 7354>>, <<7357, 7359>>, <<7424, 7615>>,
    <<7680, 7957>>, <<7960, 7965>>, <<7968, 8005>>, <<8008, 8013>>, <<8016, 8023>>, <<8025, 8025>>,
    <<8027, 8027>>, <<8029, 8029>>, <<8031, 8061>>, <<8064, 8116>>, <<8118, 8124>>, <<8126, 8126>>,
    <<8130, 8132>>, <<8134, 8140>>, <<8144, 8147>>, <<8150, 8155>>, <<8160, 8172>>, <<8178, 8180>>,
    <<8182, 8188>>, <<8305, 8305>>, <<8319, 8319>>, <<8336, 8348>>, <<8450, 8450>>, <<8455, 8455>>,
    <<8458, 8467>>, <<8469, 8469>>, <<8473, 8477>>, <<8484, 8484>>, <<8486, 8486>>, <<8488, 8488>>,
    <<8490, 8493>>, <<8495, 8500>>, <<8505, 8505>>, <<8508, 8511>>, <<8517, 8521>>, <<8526, 8526>>,
    <<8544, 8575>>, <<8579, 8580>>, <<9398, 9449>>, <<11264, 11492>>, <<11499, 11502>>, <<11506, 11507>>,
    <<11520, 11557>>, <<11559, 11559>>, <<11565, 11565>>, <<42560, 42605>>, <<42624, 42653>>, <<42786, 42887>>,
    <<42891, 42894>>, <<42896, 42954>>, <<42960, 42961>>, <<42963, 42963>>, <<42965, 42969>>, <<42997, 42998>>,
    <<43000, 43002>>, <<43824, 43866>>, <<43868, 43880>>, <<43888, 43967>>, <<64256, 64262>>, <<64275, 64279>>,
    <<65313, 65338>>, <<65345, 65370>>, <<66560, 66639>>, <<66736, 66771>>, <<66776, 66811>>, <<66928, 66938>>,
    <<66940, 66954>>, <<66956, 66962>>, <<66964, 66965>>, <<66967, 66977>>, <<66979, 66993>>, <<66995, 67001>>,
    <<67003, 67004>>, <<67456, 67456>>, <<67459, 67461>>, <<67463, 67504>>, <<67506, 67514>>, <<68736, 68786>>,
    <<68800, 68850>>, <<71840, 71903>>, <<93760, 93823>>, <<119808, 119892>>, <<119894, 119964>>, <<119966, 119967>>,
    <<119970, 119970>>, <<119973, 119974>>, <<119977, 119980>>, <<119982, 119993>>, <<119995, 119995>>, <<119997, 120003>>,
    <<120005, 120069>>, <<120071, 120074>>, <<120077, 120084>>, <<120086, 120092>>, <<120094, 120121>>, <<120123, 120126>>,
    <<120128, 120132>>, <<120134, 120134>>, <<120138, 120144>>, <<120146, 120485>>, <<120488, 120512>>, <<120514, 120538>>,
    <<120540, 120570>>, <<120572, 120596>>, <<120598, 120628>>, <<120630, 120654>>, <<120656, 120686>>, <<120688, 120712>>,
    <<120714, 120744>>, <<120746, 120770>>, <<120772, 120779>>, <<122624, 122633>>, <<122635, 122654>>, <<125184, 125251>>,
    <<127280, 127305>>, <<127312, 127337>>, <<127344, 127369>> >>

CaseIgnorableRanges ==
<<
    <<39, 39>>, <<46, 46>>, <<58, 58>>, <<94, 94>>, <<96, 96>>, <<168, 168>>,
    <<173, 173>>, <<175, 175>>, <<180, 180>>, <<183, 184>>, <<688, 879>>, <<884, 885>>,
    <<890, 890>>, <<900, 901>>, <<903, 903>>, <<1155, 1161>>, <<1369, 1369>>, <<1375, 1375>>,
    <<1425, 1469>>, <<1471, 1471>>, <<1473, 1474>>, <<1476, 1477>>, <<1479, 1479>>, <<1524, 1524>>,
    <<1536, 1541>>, <<1552, 1562>>, <<1564, 1564>>, <<1600, 1600>>, <<1611, 1631>>, <<1648, 1648>>,
    <<1750, 1757>>, <<1759, 1768>>, <<1770, 1773>>, <<1807, 1807>>, <<1809, 1809>>, <<1840, 1866>>,
    <<1958, 1968>>, <<2027, 2037>>, <<2042, 2042>>, <<2045, 2045>>, <<2070, 2093>>, <<2137, 2139>>,
    <<2184, 2184>>, <<2192, 2193>>, <<2200, 2207>>, <<2249, 2306>>, <<2362, 2362>>, <<2364, 2364>>,
    <<2369, 2376>>, <<2381, 2381>>, <<2385, 2391>>, <<2402, 2403>>, <<2417, 2417>>, <<2433, 2433>>,
    <<2492, 2492>>, <<2497, 2500>>, <<2509, 2509>>, <<2530, 2531>>, <<2558, 2558>>, <<2561, 2562>>,
    <<2620, 2620>>, <<2625, 2626>>, <<2631, 2632>>, <<2635, 2637>>, <<2641, 2641>>, <<2672, 2673>>,
    <<2677, 2677>>, <<2689, 2690>>, <<2748, 2748>>, <<2753, 2757>>, <<2759, 2760>>, <<2765, 2765>>,
    <<2786, 2787>>, <<2810, 2815>>, <<2817, 2817>>, <<2876, 2876>>, <<2879, 2879>>, <<2881, 2884>>,
    <<2893, 2893>>, <<2901, 2902>>, <<2914, 2915>>, <<2946, 2946>>, <<3008, 3008>>, <<3021, 3021>>,
    <<3072, 3072>>, <<3076, 3076>>, <<3132, 3132>>, <<3134, 3136>>, <<3142, 3144>>, <<3146, 3149>>,
    <<3157, 3158>>, <<3170, 3171>>, <<3201, 3201>>, <<3260, 3260>>, <<3263, 3263>>, <<3270, 3270>>,
    <<3276, 3277>>, <<3298, 3299>>, <<3328, 3329>>, <<3387, 3388>>, <<3393, 3396>>, <<3405, 3405>>,
    <<3426, 3427>>, <<3457, 3457>>, <<3530, 3530>>, <<3538, 3540>>, <<3542, 3542>>, <<3633, 3633>>,
    <<3636, 3642>>, <<3654, 3662>>, <<3761, 3761>>, <<3764, 3772>>, <<3782, 3782>>, <<3784, 3789>>,
    <<3864, 3865>>, <<3893, 3893>>, <<3895, 3895>>, <<3897, 3897>>, <<3953, 3966>>, <<3968, 3972>>,
    <<3974, 3975>>, <<3981, 3991>>, <<3993, 4028>>, <<4038, 4038>>, <<4141, 4144>>, <<4146, 4151>>,
    <<4153, 4154>>, <<4157, 4158>>, <<4184, 4185>>, <<4190, 4192>>, <<4209, 4212>>, <<4226, 4226>>,
    <<4229, 4230>>, <<4237, 4237>>, <<4253, 4253>>, <<4348, 4348>>, <<4957, 4959>>, <<5906, 5908>>,
    <<5938, 5939>>, <<5970, 5971>>, <<6002, 6003>>, <<6068, 6069>>, <<6071, 6077>>, <<6086, 6086>>,
    <<6089, 6099>>, <<6103, 6103>>, <<6109, 6109>>, <<6155, 6159>>, <<6211, 6211>>, <<6277, 6278>>,
    <<6313, 6313>>, <<6432, 6434>>, <<6439, 6440>>, <<6450, 6450>>, <<6457, 6459>>, <<6679, 6680>>,
    <<6683, 6683>>, <<6742, 6742>>, <<6744, 6750>>, <<6752, 6752>>, <<6754, 6754>>, <<6757, 6764>>,
    <<6771, 6780>>, <<6783, 6783>>, <<6823, 6823>>, <<6832, 6862>>, <<6912, 6915>>, <<6964, 6964>>,
    <<6966, 6970>>, <<6972, 6972>>, <<6978, 6978>>, <<7019, 7027>>, <<7040, 7041>>, <<7074, 7077>>,
    <<7080, 7081>>, <<7083, 7085>>, <<7142, 7142>>, <<7144, 7145>>, <<7149, 7149>>, <<7151, 7153>>,
    <<7212, 7219>>, <<7222, 7223>>, <<7288, 7293>>, <<7376, 7378>>, <<7380, 7392>>, <<7394, 7400>>,
    <<7405, 7405>>, <<7412, 7412>>, <<7416, 7417>>, <<7468, 7530>>, <<7544, 7544>>, <<7579, 7679>>,
    <<8125, 8125>>, <<8127, 8129>>, <<8141, 8143>>, <<8157, 8159>>, <<8173, 8175>>, <<8189, 8190>>,
    <<8203, 8207>>, <<8216, 8217>>, <<8228, 8228>>, <<8231, 8231>>, <<8234, 8238>>, <<8288, 8292>>,
    <<8294, 8303>>, <<8305, 8305>>, <<8319, 8319>>, <<8336, 8348>>, <<8400, 8432>>, <<11388, 11389>>,
    <<11503, 11505>>, <<11631, 11631>>, <<11647, 11647>>, <<11744, 11775>>, <<11823, 11823>>, <<12293, 12293>>,
    <<12330, 12333>>, <<12337, 12341>>, <<12347, 12347>>, <<12441, 12446>>, <<12540, 12542>>, <<40981, 40981>>,
    <<42232, 42237>>, <<42508, 42508>>, <<42607, 42610>>, <<42612, 42621>>, <<42623, 42623>>, <<42652, 42655>>,
    <<42736, 42737>>, <<42752, 42785>>, <<42864, 42864>>, <<42888, 42890>>, <<42994, 42996>>, <<43000, 43001>>,
    <<43010, 43010>>, <<43014, 43014>>, <<43019, 43019>>, <<43045, 43046>>, <<43052, 43052>>, <<43204, 43205>>,
    <<43232, 43249>>, <<43263, 43263>>, <<43302, 43309>>, <<43335, 43345>>, <<43392, 43394>>, <<43443, 43443>>,
    <<43446, 43449>>, <<43452, 43453>>, <<43471, 43471>>, <<43493, 43494>>, <<43561, 43566>>, <<43569, 43570>>,
    <<43573, 43574>>, <<43587, 43587>>, <<43596, 43596>>, <<43632, 43632>>, <<43644, 43644>>, <<43696, 43696>>,
    <<43698, 43700>>, <<43703, 43704>>, <<43710, 43711>>, <<43713, 43713>>, <<43741, 43741>>, <<43756, 43757>>,
    <<43763, 43764>>, <<43766, 43766>>, <<43867, 43871>>, <<43881, 43883>>, <<44005, 44005>>, <<44008, 44008>>,
    <<44013, 44013>>, <<64286, 64286>>, <<64434, 64450>>, <<65024, 65039>>, <<65043, 65043>>, <<65056, 65071>>,
    <<65106, 65106>>, <<65109, 65109>>, <<65279, 65279>>, <<65287, 65287>>, <<65294, 65294>>, <<65306, 65306>>,
    <<65342, 65342>>, <<65344, 65344>>, <<65392, 65392>>, <<65438, 65439>>, <<65507, 65507>>, <<65529, 65531>>,
    <<66045, 66045>>, <<66272, 66272>>, <<66422, 66426>>, <<67456, 67461>>, <<67463, 67504>>, <<67506, 67514>>,
    <<68097, 68099>>, <<68101, 68102>>, <<68108, 68111>>, <<68152, 68154>>, <<68159, 68159>>, <<68325, 68326>>,
    <<68900, 68903>>, <<69291, 69292>>, <<69446, 69456>>, <<69506, 69509>>, <<69633, 69633>>, <<69688, 69702>>,
    <<69744, 69744>>, <<69747, 69748>>, <<69759, 69761>>, <<69811, 69814>>, <<69817, 69818>>, <<69821, 69821>>,
    <<69826, 69826>>, <<69837, 69837>>, <<69888, 69890>>, <<69927, 69931>>, <<69933, 69940>>, <<70003, 70003>>,
    <<70016, 70017>>, <<70070, 70078>>, <<70089, 70092>>, <<70095, 70095>>, <<70191, 70193>>, <<70196, 70196>>,
    <<70198, 70199>>, <<70206, 70206>>, <<70367, 70367>>, <<70371, 70378>>, <<70400, 70401>>, <<70459, 70460>>,
    <<70464, 70464>>, <<70502, 70508>>, <<70512, 70516>>, <<70712, 70719>>, <<70722, 70724>>, <<70726, 70726>>,
    <<70750, 70750>>, <<70835, 70840>>, <<70842, 70842>>, <<70847, 70848>>, <<70850, 70851>>, <<71090, 71093>>,
    <<71100, 71101>>, <<71103, 71104>>, <<71132, 71133>>, <<71219, 71226>>, <<71229, 71229>>, <<71231, 71232>>,
    <<71339, 71339>>, <<71341, 71341>>, <<71344, 71349>>, <<71351, 71351>>, <<71453, 71455>>, <<71458, 71461>>,
    <<71463, 71467>>, <<71727, 71735>>, <<71737, 71738>>, <<71995, 71996>>, <<71998, 71998>>, <<72003, 72003>>,
    <<72148, 72151>>, <<72154, 72155>>, <<72160, 72160>>, <<72193, 72202>>, <<72243, 72248>>, <<72251, 72254>>,
    <<72263, 72263>>, <<72273, 72278>>, <<72281, 72283>>, <<72330, 72342>>, <<72344, 72345>>, <<72752, 72758>>,
    <<72760, 72765>>, <<72767, 72767>>, <<72850, 72871>>, <<72874, 72880>>, <<72882, 72883>>, <<72885, 72886>>,
    <<73009, 73014>>, <<73018, 73018>>, <<73020, 73021>>, <<73023, 73029>>, <<73031, 73031>>, <<73104, 73105>>,
    <<73109, 73109>>, <<73111, 73111>>, <<73459, 73460>>, <<78896, 78904>>, <<92912, 92916>>, <<92976, 92982>>,
    <<92992, 92995>>, <<94031, 94031>>, <<94095, 94111>>, <<94176, 94177>>, <<94179, 94180>>, <<110576, 110579>>,
    <<110581, 110587>>, <<110589, 110590>>, <<113821, 113822>>, <<113824, 113827>>, <<118528, 118573>>, <<118576, 118598>>,
    <<119143, 119145>>, <<119155, 119170>>, <<119173, 119179>>, <<119210, 119213>>, <<119362, 119364>>, <<121344, 121398>>,
    <<121403, 121452>>, <<121461, 121461>>, <<121476, 121476>>, <<121499, 121503>>, <<121505, 121519>>, <<122880, 122886>>,
    <<122888, 122904>>, <<122907, 122913>>, <<122915, 122916>>, <<122918, 122922>>, <<123184, 123197>>, <<123566, 123566>>,
    <<123628, 123631>>, <<125136, 125142>>, <<125252, 125259>>, <<127995, 127999>>, <<917505, 917505>>, <<917536, 917631>>,
    <<917760, 917999>> >>

\* The character at position i; -1 before the start and after the end.
At(t, i) == IF i >= 1 /\ i <= Len(t) THEN Nth(t, i) ELSE -1

\* \d
IsDigit(c) ==
    \/ c \in 48..57
    \/ c >= 128 /\ \E k \in 1..Len(DecimalZeros) :
                      Nth(DecimalZeros, k) <= c /\ c <= Nth(DecimalZeros, k) + 9

\* The value of a decimal digit, as float() reads it
DigitValue(c) ==
    IF c < 128 THEN c - 48
    ELSE c - Max({z \in Range(DecimalZeros) : z <= c})

\* \s, and the characters str.strip() removes
IsSpace(c) == c \in 9..13 \/ c \in 28..32 \/ (c >= 128 /\ InRanges(c, SpaceRanges))

\* \w
IsWord(c) ==
    \/ c \in 48..57 \/ c \in 65..90 \/ c = 95 \/ c \in 97..122
    \/ c >= 128 /\ InRanges(c, WordRanges)

\* \b at position i: exactly one of the characters around it is a word character
WordBoundary(t, i) == IsWord(At(t, i - 1)) # IsWord(At(t, i))

\* The literal lit occurs at position i.
StartsWithAt(t, i, lit) ==
    \A k \in 1..Len(lit) : At(t, i + k - 1) = Nth(lit, k)

IsCased(c) == c \in 65..90 \/ c \in 97..122 \/ (c >= 128 /\ InRanges(c, CasedRanges))

IsCaseIgnorable(c) == InRanges(c, CaseIgnorableRanges)

\* The classes of characters that a scan runs over: digits, characters
\* that are no digits, white space, case-ignorable characters, and "." of a
\* regex (anything but "\n").
InClass(class, c) ==
    CASE class = "digit" -> IsDigit(c)
      [] class = "nondigit" -> c # -1 /\ ~IsDigit(c)
      [] class = "space" -> IsSpace(c)
      [] class = "ignorable" -> c # -1 /\ IsCaseIgnorable(c)
      [] class = "dot" -> c \notin {10, -1}

\* The first position in lo..hi whose character is not of the class; hi + 1
\* when there is none.
NotPast(p, mid, rest) == IF p <= mid THEN p ELSE rest

RECURSIVE RunEnd(_, _, _, _)
RunEnd(class, t, lo, hi) ==
    IF lo > hi THEN lo
    ELSE IF lo = hi THEN (IF InClass(class, At(t, lo)) THEN lo + 1 ELSE lo)
    ELSE NotPast(RunEnd(class, t, lo, (lo + hi) \div 2), (lo + hi) \div 2,
                 RunEnd(class, t, (lo + hi) \div 2 + 1, hi))

\* The last position in lo..hi whose character is not of the class; lo - 1
\* when there is none.
NotBefore(p, mid, rest) == IF p > mid THEN p ELSE rest

RECURSIVE RunStart(_, _, _, _)
RunStart(class, t, lo, hi) ==
    IF lo > hi THEN hi
    ELSE IF lo = hi THEN (IF InClass(class, At(t, lo)) THEN lo - 1 ELSE lo)
    ELSE NotBefore(RunStart(class, t, (lo + hi) \div 2 + 1, hi), (lo + hi) \div 2,
                   RunStart(class, t, lo, (lo + hi) \div 2))

\* The end of the longest run of digits (of white space) that starts at i.
DigitsEnd(t, i) == IF IsDigit(At(t, i)) THEN RunEnd("digit", t, i + 1, Len(t)) ELSE i

SpaceEnd(t, i) == IF IsSpace(At(t, i)) THEN RunEnd("space", t, i + 1, Len(t)) ELSE i

\* The nearest character before (after) position i that is not
\* case-ignorable; -1 when there is none.
SigmaBefore(t, i) == At(t, RunStart("ignorable", t, 1, i))

SigmaAfter(t, i) == At(t, RunEnd("ignorable", t, i, Len(t)))

\* A capital sigma at position i ends a word: it follows a cased character
\* and no cased character follows it.
FinalSigma(t, i) ==
    /\ SigmaBefore(t, i - 1) # -1 /\ IsCased(SigmaBefore(t, i - 1))
    /\ SigmaAfter(t, i + 1) = -1 \/ ~IsCased(SigmaAfter(t, i + 1))

\* The lower case of one character, out of context: one character, or two
\* for U+0130 (capital I with dot above).
LowerRunOf(c) ==
    {k \in 1..Len(LowerRuns) :
        /\ Nth(LowerRuns, k)[1] <= c /\ c <= Nth(LowerRuns, k)[2]
        /\ (c - Nth(LowerRuns, k)[1]) % Nth(LowerRuns, k)[3] = 0}

LowerChar(c) ==
    IF c \in 65..90 THEN <<c + 32>>
    ELSE IF c < 128 THEN <<c>>
    ELSE IF c = 304 THEN <<105, 775>>
    ELSE IF LowerRunOf(c) = {} THEN <<c>>
    ELSE <<c + Nth(LowerRuns, Min(LowerRunOf(c)))[4]>>

\* The lower case of the character at position i of t: a capital sigma is
\* read in its context.
LowerAt(t, i) ==
    IF Nth(t, i) = 931
    THEN (IF FinalSigma(t, i) THEN <<962>> ELSE <<963>>)
    ELSE LowerChar(Nth(t, i))

\* str.lower(), for the positions lo..hi
RECURSIVE LowerIn(_, _, _)
LowerIn(t, lo, hi) ==
    IF lo > hi THEN <<>>
    ELSE IF lo = hi THEN LowerAt(t, lo)
    ELSE LowerIn(t, lo, (lo + hi) \div 2) \o LowerIn(t, (lo + hi) \div 2 + 1, hi)

Lower(t) == LowerIn(t, 1, Len(t))

\* str.strip()
StripLeft(t) == SubSeq(t, SpaceEnd(t, 1), Len(t))

StripRight(t) == SubSeq(t, 1, RunStart("space", t, 1, Len(t)))

Strip(t) == StripRight(StripLeft(t))

\* "needle in t"
Contains(t, needle) == \E i \in 1..(Len(t) + 1) : StartsWithAt(t, i, needle)

(***************************************************************************)
(* Constants of the source                                                 *)
(***************************************************************************)
\* UNIT_SECONDS, in the insertion order of the dict: the order in which
\* "|".join(UNIT_SECONDS.keys()) lists the alternatives of the unit regex.
UNIT_SECONDS == <<
    [unit |-> <<115, 101, 99, 111, 110, 100>>, secs |-> 1],
    [unit |-> <<115, 101, 99>>, secs |-> 1],
    [unit |-> <<115, 101, 99, 115>>, secs |-> 1],
    [unit |-> <<115>>, secs |-> 1],
    [unit |-> <<115, 101, 99, 111, 110, 100, 115>>, secs |-> 1],
    [unit |-> <<109, 105, 110, 117, 116, 101>>, secs |-> 60],
    [unit |-> <<109, 105, 110>>, secs |-> 60],
    [unit |-> <<109, 105, 110, 115>>, secs |-> 60],
    [unit |-> <<109>>, secs |-> 60],
    [unit |-> <<109, 105, 110, 117, 116, 101, 115>>, secs |-> 60],
    [unit |-> <<104, 111, 117, 114>>, secs |-> 3600],
    [unit |-> <<104, 114>>, secs |-> 3600],
    [unit |-> <<104, 114, 115>>, secs |-> 3600],
    [unit |-> <<104>>, secs |-> 3600],
    [unit |-> <<104, 111, 117, 114, 115>>, secs |-> 3600],
    [unit |-> <<100, 97, 121>>, secs |-> 86400],
    [unit |-> <<100>>, secs |-> 86400],
    [unit |-> <<100, 97, 121, 115>>, secs |-> 86400],
    [unit |-> <<119, 101, 101, 107>>, secs |-> 604800],
    [unit |-> <<119, 107>>, secs |-> 604800],
    [unit |-> <<119>>, secs |-> 604800],
    [unit |-> <<119, 101, 101, 107, 115>>, secs |-> 604800],
    [unit |-> <<109, 111, 110, 116, 104>>, secs |-> 2592000],
    [unit |-> <<109, 111>>, secs |-> 2592000],
    [unit |-> <<109, 111, 110, 116, 104, 115>>, secs |-> 2592000],
    [unit |-> <<121, 101, 97, 114>>, secs |-> 31536000],
    [unit |-> <<121, 114>>, secs |-> 31536000],
    [unit |-> <<121>>, secs |-> 31536000],
    [unit |-> <<121, 101, 97, 114, 115>>, secs |-> 31536000] >>

UnitSpellings == [k \in 1..Len(UNIT_SECONDS) |-> UNIT_SECONDS[k].unit]

\* UNIT_SECONDS[unit]
UnitSecondsOf(u) ==
    UNIT_SECONDS[CHOOSE k \in 1..Len(UNIT_SECONDS) : UNIT_SECONDS[k].unit = u].secs

\* FRACTIONS, in insertion order, each with str(val) as Python prints it.
FRACTIONS == <<
    [word |-> <<104, 97, 108, 102>>, val |-> <<48, 46, 53>>],
    [word |-> <<113, 117, 97, 114, 116, 101, 114>>, val |-> <<48, 46, 50, 53>>],
    [word |-> <<116, 104, 105, 114, 100>>, val |-> <<48, 46, 51, 51, 51, 51, 51, 51, 51, 51, 51, 51, 51, 51, 51, 51, 51, 51>>],
    [word |-> <<190>>, val |-> <<48, 46, 55, 53>>],
    [word |-> <<189>>, val |-> <<48, 46, 53>>],
    [word |-> <<188>>, val |-> <<48, 46, 50, 53>>] >>

Unlimited == <<117, 110, 108, 105, 109, 105, 116, 101, 100>>

\* (?:per|\/|every)
Separators == <<
    <<112, 101, 114>>,
    <<47>>,
    <<101, 118, 101, 114, 121>> >>

\* (?:msg|msgs|messages?)? in the order the engine tries it: the three
\* alternatives ("messages?" with its greedy s first), then the empty match.
MsgAlternatives == <<
    <<109, 115, 103>>,
    <<109, 115, 103, 115>>,
    <<109, 101, 115, 115, 97, 103, 101, 115>>,
    <<109, 101, 115, 115, 97, 103, 101>>,
    <<>> >>

(***************************************************************************)
(* Python ints: a natural number is the sequence of its digits to the base *)
(* 2^LimbBits ("limbs"), most significant first, without a leading zero;   *)
(* 0 is the empty sequence.  A loop over the limbs lo..hi of a number is   *)
(* written as the loop over one half of them followed by the loop over the *)
(* other half, which keeps the evaluation shallow.                         *)
(***************************************************************************)
LimbBits == 15

Base == 2^LimbBits

\* a without its leading zero limbs
NatNorm(a) ==
    IF a = <<>> \/ Head(a) # 0 THEN a
    ELSE IF \A k \in 1..Len(a) : Nth(a, k) = 0 THEN <<>>
    ELSE SubSeq(a, Min({k \in 1..Len(a) : Nth(a, k) # 0}), Len(a))

\* a with leading zero limbs, n limbs long
Pad(a, n) == Repeat(0, n - Len(a)) \o a

\* The limbs of a number n < 2^31
RECURSIVE NatOfInt(_)
NatOfInt(n) == IF n = 0 THEN <<>> ELSE Append(NatOfInt(n \div Base), n % Base)

\* The limbs lo..hi of a * v + carry (d) and the carry out of them (c),
\* for 0 <= v <= Base, from the right
RECURSIVE MulSmallIn(_, _, _, _, _)
MulSmallIn(a, lo, hi, v, carry) ==
    IF lo > hi THEN [d |-> <<>>, c |-> carry]
    ELSE IF lo = hi
    THEN [d |-> <<(Nth(a, lo) * v + carry) % Base>>,
          c |-> (Nth(a, lo) * v + carry) \div Base]
    ELSE LET right == MulSmallIn(a, (lo + hi) \div 2 + 1, hi, v, carry)
             left == MulSmallIn(a, lo, (lo + hi) \div 2, v, right.c)
         IN  Then(right, [d |-> left.d \o right.d, c |-> left.c])

\* The carry in front of the limbs
WithCarry(r) == NatNorm(NatOfInt(r.c) \o r.d)

\* a * v + carry for 0 <= v <= Base and 0 <= carry < Base
NatMulSmall(a, v, carry) == WithCarry(MulSmallIn(a, 1, Len(a), v, carry))

\* The limbs lo..hi of a + b + carry and the carry out of them, for a and b
\* of the same length
RECURSIVE AddIn(_, _, _, _, _)
AddIn(a, b, lo, hi, carry) ==
    IF lo > hi THEN [d |-> <<>>, c |-> carry]
    ELSE IF lo = hi
    THEN [d |-> <<(Nth(a, lo) + Nth(b, lo) + carry) % Base>>,
          c |-> (Nth(a, lo) + Nth(b, lo) + carry) \div Base]
    ELSE LET right == AddIn(a, b, (lo + hi) \div 2 + 1, hi, carry)
             left == AddIn(a, b, lo, (lo + hi) \div 2, right.c)
         IN  Then(right, [d |-> left.d \o right.d, c |-> left.c])

NatAddPadded(a, b, n) == WithCarry(AddIn(Pad(a, n), Pad(b, n), 1, n, 0))

NatAdd(a, b) == NatAddPadded(a, b, Max({Len(a), Len(b)}))

\* The limbs lo..hi of a - b - borrow and the borrow out of them, for a and
\* b of the same length
RECURSIVE SubIn(_, _, _, _, _)
SubIn(a, b, lo, hi, borrow) ==
    IF lo > hi THEN [d |-> <<>>, c |-> borrow]
    ELSE IF lo = hi
    THEN [d |-> <<(Nth(a, lo) - Nth(b, lo) - borrow + Base) % Base>>,
          c |-> IF Nth(a, lo) < Nth(b, lo) + borrow THEN 1 ELSE 0]
    ELSE LET right == SubIn(a, b, (lo + hi) \div 2 + 1, hi, borrow)
             left == SubIn(a, b, lo, (lo + hi) \div 2, right.c)
         IN  Then(right, [d |-> left.d \o right.d, c |-> left.c])

\* a - b for a >= b
NatSub(a, b) == NatNorm(SubIn(a, Pad(b, Len(a)), 1, Len(a), 0).d)

\* a < b
LimbsLess(a, b, differ) == differ # {} /\ Nth(a, Min(differ)) < Nth(b, Min(differ))

NatLess(a, b) ==
    \/ Len(a) < Len(b)
    \/ Len(a) = Len(b) /\ LimbsLess(a, b, {k \in 1..Len(a) : Nth(a, k) # Nth(b, k)})

\* a * b, limb by limb of b from the left (b of a few limbs)
RECURSIVE NatMulFrom(_, _, _, _)
NatMulFrom(a, b, k, acc) ==
    IF k > Len(b) THEN acc
    ELSE NatMulFrom(a, b, k + 1,
                    NatAdd(NatNorm(acc \o <<0>>), NatMulSmall(a, Nth(b, k), 0)))

NatMul(a, b) == NatMulFrom(a, b, 1, <<>>)

\* int(digits) for the digit values lo..hi of a sequence, most significant
\* first, after the digits that gave acc
RECURSIVE NatOfDigitsIn(_, _, _, _)
NatOfDigitsIn(digs, lo, hi, acc) ==
    IF lo > hi THEN acc
    ELSE IF lo = hi THEN NatMulSmall(acc, 10, Nth(digs, lo))
    ELSE LET left == NatOfDigitsIn(digs, lo, (lo + hi) \div 2, acc)
         IN  Then(left, NatOfDigitsIn(digs, (lo + hi) \div 2 + 1, hi, left))

NatOfDigits(digs) == NatOfDigitsIn(digs, 1, Len(digs), <<>>)

\* The number of bits of a limb, and of a natural number (0 has none)
LimbWidth(x) == Min({k \in 0..LimbBits : x < 2^k})

NatBits(a) == IF a = <<>> THEN 0 ELSE LimbBits * (Len(a) - 1) + LimbWidth(Head(a))

NatIsOdd(a) == a # <<>> /\ Last(a) % 2 = 1

\* a * 2^n
ShiftLeft(a, n) ==
    IF a = <<>> THEN <<>>
    ELSE NatMulSmall(a, 2^(n % LimbBits), 0) \o Repeat(0, n \div LimbBits)

\* The limbs lo..hi of a divided by a divisor d of one limb, 1 <= d <= Base,
\* from the left: the limbs of the quotient (q) and the remainder (r), rem
\* being the remainder of the limbs before lo.
RECURSIVE ShortDivIn(_, _, _, _, _)
ShortDivIn(a, lo, hi, d, rem) ==
    IF lo > hi THEN [q |-> <<>>, r |-> rem]
    ELSE IF lo = hi
    THEN [q |-> <<(rem * Base + Nth(a, lo)) \div d>>,
          r |-> (rem * Base + Nth(a, lo)) % d]
    ELSE LET left == ShortDivIn(a, lo, (lo + hi) \div 2, d, rem)
             right == ShortDivIn(a, (lo + hi) \div 2 + 1, hi, d, left.r)
         IN  Then(left, [q |-> left.q \o right.q, r |-> right.r])

\* A quotient q and whether a remainder is left ("rest")
Quotient(dv) == [q |-> NatNorm(dv.q), rest |-> dv.r # 0]

\* a // d and whether a % d != 0, for a divisor d of one limb
ShortDiv(a, d) == Quotient(ShortDivIn(a, 1, Len(a), d, 0))

\* One limb of a quotient: the largest q with d * q <= r, for r < d * Base
\* and a divisor d of two or more limbs whose first limb is at least Base / 2.
\* The estimate from the first limbs of r and d is at most 2 too large.
QuotEstimate(r, d) ==
    IF Len(r) < Len(d) THEN 0
    ELSE IF Len(r) = Len(d) THEN Head(r) \div Head(d)
    ELSE Min({Base - 1, (Head(r) * Base + Nth(r, 2)) \div Head(d)})

RECURSIVE QuotLimbFrom(_, _, _)
QuotLimbFrom(r, d, q) ==
    IF NatLess(r, NatMulSmall(d, q, 0)) THEN QuotLimbFrom(r, d, q - 1) ELSE q

QuotLimb(r, d) == QuotLimbFrom(r, d, QuotEstimate(r, d))

\* Long division, limb by limb of a from the left: st holds the limbs of the
\* quotient (q) and the remainder (r) so far.
LongDivLimb(r, d, q, ql) ==
    [q |-> Append(q, ql), r |-> NatSub(r, NatMulSmall(d, ql, 0))]

LongDivStep(limb, d, st) ==
    LongDivLimb(NatNorm(st.r \o <<limb>>), d, st.q,
                QuotLimb(NatNorm(st.r \o <<limb>>), d))

RECURSIVE LongDivIn(_, _, _, _, _)
LongDivIn(a, lo, hi, d, st) ==
    IF lo > hi THEN st
    ELSE IF lo = hi THEN LongDivStep(Nth(a, lo), d, st)
    ELSE LET left == LongDivIn(a, lo, (lo + hi) \div 2, d, st)
         IN  Then(left, LongDivIn(a, (lo + hi) \div 2 + 1, hi, d, left))

LongDivResult(st) == [q |-> NatNorm(st.q), rest |-> st.r # <<>>]

LongDivScaled(a, d) == LongDivResult(LongDivIn(a, 1, Len(a), d, [q |-> <<>>, r |-> <<>>]))

\* a // d and whether a % d != 0, for a divisor d of two or more limbs: both
\* are scaled so that the first limb of the divisor is at least Base / 2.
LongDiv(a, d) ==
    LongDivScaled(ShiftLeft(a, LimbBits - LimbWidth(Head(d))),
                  ShiftLeft(d, LimbBits - LimbWidth(Head(d))))

\* a // d, and whether a % d != 0
DivFloor(a, d) == IF Len(d) = 1 THEN ShortDiv(a, Head(d)) ELSE LongDiv(a, d)

WithRest(dv, more) == [q |-> dv.q, rest |-> dv.rest \/ more]

\* dv // 10^(4n): n divisions by 10^4
RECURSIVE DivChunks(_, _)
DivChunks(dv, n) ==
    IF n = 0 THEN dv
    ELSE IF n = 1 THEN WithRest(ShortDiv(dv.q, 10^4), dv.rest)
    ELSE LET first == DivChunks(dv, n \div 2)
         IN  Then(first, DivChunks(first, n - n \div 2))

\* a // 10^k, and whether a % 10^k != 0
DivPow10(a, k) == DivChunks(ShortDiv(a, 10^(k % 4)), k \div 4)

\* a // 2^n, and whether one of the n bits dropped was set
ShiftRight(a, n) ==
    IF n \div LimbBits >= Len(a) THEN [q |-> <<>>, rest |-> a # <<>>]
    ELSE WithRest(ShortDiv(SubSeq(a, 1, Len(a) - n \div LimbBits), 2^(n % LimbBits)),
                  \E k \in (Len(a) - n \div LimbBits + 1)..Len(a) : Nth(a, k) # 0)

\* The number of zero bits at the right end of a # 0
LimbTrailingZeros(x) == Max({k \in 0..LimbBits : x % 2^k = 0})

LastNonZero(a) == Max({k \in 1..Len(a) : Nth(a, k) # 0})

NatTrailingZeros(a) ==
    LimbBits * (Len(a) - LastNonZero(a)) + LimbTrailingZeros(Nth(a, LastNonZero(a)))

(***************************************************************************)
(* Python floats: a non-negative binary64 is 0.0, infinity, or m * 2^e     *)
(* with m odd, m < 2^Precision and MinExp <= e; a finite double stays      *)
(* below 2^MaxExp.                                                         *)
(***************************************************************************)
Precision == 53

MinExp == -1074

MaxExp == 1024

FloatZero == [inf |-> FALSE, m |-> <<>>, e |-> 0]

Infinity == [inf |-> TRUE, m |-> <<>>, e |-> 0]

\* m * 2^e with the tz zero bits at the end of m moved into the exponent
Finite(m, e, tz) == [inf |-> FALSE, m |-> ShiftRight(m, tz).q, e |-> e + tz]

\* The double that is exactly m * 2^e (m of at most Precision bits and
\* e >= MinExp), or infinity from 2^MaxExp on
FloatOf(m, e) ==
    IF m = <<>> THEN FloatZero
    ELSE IF NatBits(m) + e > MaxExp THEN Infinity
    ELSE Finite(m, e, NatTrailingZeros(m))

\* Round half to even: sh is the number shifted so that its last bit is the
\* half bit, with sh.rest telling whether something lies below the half bit.
RoundUpIf(m, half, below) ==
    IF half /\ (below \/ NatIsOdd(m)) THEN NatAdd(m, <<1>>) ELSE m

RoundHalfEven(sh, sticky) ==
    RoundUpIf(ShortDiv(sh.q, 2).q, NatIsOdd(sh.q), sticky \/ sh.rest)

\* The double nearest to (q + d) * 2^e, where 0 <= d < 1 and d > 0 iff
\* sticky.  drop is the number of bits of q below the last bit a double
\* keeps at this magnitude; an inexact q (sticky) has bits to drop.
FloatRoundAt(q, sticky, e, drop) ==
    IF drop <= 0 THEN FloatOf(q, e)
    ELSE FloatOf(RoundHalfEven(ShiftRight(q, drop - 1), sticky), e + drop)

FloatRound(q, sticky, e) ==
    IF q = <<>> THEN FloatZero
    ELSE FloatRoundAt(q, sticky, e, Max({NatBits(q) - Precision, MinExp - e}))

\* The double nearest to (n / d) * 2^e: the quotient is taken with
\* Precision + 3 bits or more, which leaves a half bit and a sticky part.
FloatOfQuotient(dv, e) == FloatRound(dv.q, dv.rest, e)

FloatOfRatioAt(n, d, e, shift) ==
    FloatOfQuotient(DivFloor(ShiftLeft(n, shift), d), e - shift)

FloatOfRatio(n, d, e) ==
    IF n = <<>> THEN FloatZero
    ELSE FloatOfRatioAt(n, d, e, Max({0, Precision + 3 + NatBits(d) - NatBits(n)}))

\* float(n) of an int
FloatOfNat(n) == FloatRound(n, FALSE, 0)

\* float(tok) for a token matched by \d+(?:\.\d+)?
DigitValues(digs) == [k \in 1..Len(digs) |-> DigitValue(Nth(digs, k))]

FractionDigits(tok) ==
    IF \E k \in 1..Len(tok) : Nth(tok, k) = 46
    THEN Len(tok) - Min({k \in 1..Len(tok) : Nth(tok, k) = 46})
    ELSE 0

\* The double nearest to n / 10^k: n is shifted until the quotient has
\* Precision + 3 bits or more (10^k has at most 4k bits).
FloatOfDecimalAt(n, k, shift) ==
    FloatOfQuotient(DivPow10(ShiftLeft(n, shift), k), 0 - shift)

FloatOfDecimal(n, k) ==
    IF n = <<>> THEN FloatZero
    ELSE FloatOfDecimalAt(n, k, Max({0, Precision + 3 + 4 * k - NatBits(n)}))

ParseFloat(tok) ==
    FloatOfDecimal(NatOfDigits(DigitValues(SelectSeq(tok, IsDigit))), FractionDigits(tok))

\* x * v for a float x and an int v, 1 <= v < 2^31
FloatMulNat(x, v) ==
    IF x.inf THEN Infinity ELSE FloatRound(NatMul(x.m, NatOfInt(v)), FALSE, x.e)

\* a / b for a finite float a and a float b # 0
Divide(a, b) ==
    IF b.inf THEN FloatZero ELSE FloatOfRatio(a.m, b.m, a.e - b.e)

\* int(x) of a finite float: truncation
FloatTrunc(x) ==
    IF x.e >= 0 THEN ShiftLeft(x.m, x.e) ELSE ShiftRight(x.m, 0 - x.e).q

(***************************************************************************)
(* The regular expressions                                                 *)
(***************************************************************************)
\* \d+(?:\.\d+)? at position i: every end the engine can settle on, in the
\* order it tries them (greedy: the longest fraction first, then no fraction,
\* then fewer integer digits).
\* de is the end of the integer digits
NumEndsFrom(t, i, de) ==
    IF de = i THEN <<>>
    ELSE Desc(IF At(t, de) = 46 THEN DigitsEnd(t, de + 1) ELSE de + 1, de + 2)
         \o Desc(de, i + 1)

NumEnds(t, i) == NumEndsFrom(t, i, DigitsEnd(t, i))

\* \s* (least = 0) or \s+ (least = 1) at position p, longest first
WsEnds(t, p, least) == Desc(SpaceEnd(t, p), p + least)

\* (?:per|\/|every) at position p: the end of the separator
SepEnd(t, p) ==
    FirstNonEmpty([k \in 1..Len(Separators) |->
        IF StartsWithAt(t, p, Nth(Separators, k))
        THEN <<p + Len(Nth(Separators, k))>>
        ELSE <<>>])

\* The part of the count regex after the number:
\* \s*(?:msg|msgs|messages?)?\s*(?:per|\/|every), from position ne.
\* ws holds the ends of a \s* in the order the engine tries them.
SepAfter(t, ws) == FirstNonEmpty([k \in 1..Len(ws) |-> SepEnd(t, Nth(ws, k))])

MsgTailEnd(t, w1) ==
    FirstNonEmpty([k \in 1..Len(MsgAlternatives) |->
        IF StartsWithAt(t, w1, Nth(MsgAlternatives, k))
        THEN SepAfter(t, WsEnds(t, w1 + Len(Nth(MsgAlternatives, k)), 0))
        ELSE <<>>])

CountTailFrom(t, ws) == FirstNonEmpty([k \in 1..Len(ws) |-> MsgTailEnd(t, Nth(ws, k))])

CountTailEnd(t, ne) == CountTailFrom(t, WsEnds(t, ne, 0))

\* (\d+(?:\.\d+)?)\s*(?:msg|msgs|messages?)?\s*(?:per|\/|every) anchored at i
CountMatchOf(i, ne, e) ==
    IF e = <<>> THEN <<>> ELSE <<[start |-> i, g1end |-> ne, end |-> Head(e)]>>

\* nes holds the ends of the number in the order the engine tries them.
RECURSIVE CountMatchIn(_, _, _, _, _)
CountMatchIn(t, i, nes, lo, hi) ==
    IF lo > hi THEN <<>>
    ELSE IF lo = hi
    THEN CountMatchOf(i, Nth(nes, lo), CountTailEnd(t, Nth(nes, lo)))
    ELSE OrElse(CountMatchIn(t, i, nes, lo, (lo + hi) \div 2),
                CountMatchIn(t, i, nes, (lo + hi) \div 2 + 1, hi))

CountMatchFrom(t, i, nes) == CountMatchIn(t, i, nes, 1, Len(nes))

CountMatchAt(t, i) == CountMatchFrom(t, i, NumEnds(t, i))

\* re.search of the count regex: the leftmost position in lo..hi with a match
RECURSIVE SearchCountIn(_, _, _)
SearchCountIn(t, lo, hi) ==
    IF lo > hi THEN <<>>
    ELSE IF lo = hi THEN CountMatchAt(t, lo)
    ELSE OrElse(SearchCountIn(t, lo, (lo + hi) \div 2),
                SearchCountIn(t, (lo + hi) \div 2 + 1, hi))

\* A variant whose regex stops before the separator:
\* (\d+(?:\.\d+)?)\s*(?:msg|msgs|messages?)?
NumberMatchAt(i, nes) ==
    IF nes = <<>> THEN <<>>
    ELSE <<[start |-> i, g1end |-> Head(nes), end |-> Head(nes)]>>

SearchNumber(t, i) == NumberMatchAt(i, NumEnds(t, i))

SearchCountNoSeparator(t) == SearchNumber(t, RunEnd("nondigit", t, 1, Len(t)))

SearchCount(t) == SearchCountIn(t, 1, Len(t))

\* The end of the line that holds position w ("." does not match "\n").
LineEnd(t, w) == RunEnd("dot", t, w, Len(t))

\* (?:per|\/|every)\s+(.+) anchored at i
\* se is the end of the separator
PeriodMatchOf(t, i, se, w) ==
    IF LineEnd(t, w) > w
    THEN <<[start |-> i, sepEnd |-> se, g1start |-> w, g1end |-> LineEnd(t, w)]>>
    ELSE <<>>

PeriodMatchIn(t, i, se, ws) ==
    FirstNonEmpty([k \in 1..Len(ws) |-> PeriodMatchOf(t, i, se, Nth(ws, k))])

PeriodMatchFrom(t, i, se) ==
    IF se = <<>> THEN <<>>
    ELSE PeriodMatchIn(t, i, Head(se), WsEnds(t, Head(se), 1))

PeriodMatchAt(t, i) == PeriodMatchFrom(t, i, SepEnd(t, i))

\* re.search of the period regex: the leftmost position in lo..hi with a match
RECURSIVE SearchPeriodIn(_, _, _)
SearchPeriodIn(t, lo, hi) ==
    IF lo > hi THEN <<>>
    ELSE IF lo = hi THEN PeriodMatchAt(t, lo)
    ELSE OrElse(SearchPeriodIn(t, lo, (lo + hi) \div 2),
                SearchPeriodIn(t, (lo + hi) \div 2 + 1, hi))

SearchPeriod(t) == SearchPeriodIn(t, 1, Len(t))

\* re.sub scans the text from the left: st.out is the result so far and
\* st.next the position at which the scan goes on.
\* re.sub(rf"\b{word}\b", repl, t) at position i
SubWordStep(t, i, word, repl, st) ==
    IF i < st.next THEN st
    ELSE IF /\ StartsWithAt(t, i, word)
            /\ WordBoundary(t, i)
            /\ WordBoundary(t, i + Len(word))
         THEN [out |-> st.out \o repl, next |-> i + Len(word)]
         ELSE [out |-> Append(st.out, Nth(t, i)), next |-> i + 1]

RECURSIVE SubWordIn(_, _, _, _, _, _)
SubWordIn(t, lo, hi, word, repl, st) ==
    IF lo > hi THEN st
    ELSE IF lo = hi THEN SubWordStep(t, lo, word, repl, st)
    ELSE LET left == SubWordIn(t, lo, (lo + hi) \div 2, word, repl, st)
         IN  Then(left, SubWordIn(t, (lo + hi) \div 2 + 1, hi, word, repl, left))

\* The text itself when the word does not occur in it
SubWord(t, word, repl) ==
    IF Contains(t, word)
    THEN SubWordIn(t, 1, Len(t), word, repl, [out |-> <<>>, next |-> 1]).out
    ELSE t

\* for word, val in FRACTIONS.items(): norm = re.sub(...), from entry k on
RECURSIVE ApplyFractions(_, _)
ApplyFractions(t, k) ==
    IF k > Len(FRACTIONS) THEN t
    ELSE ApplyFractions(SubWord(t, FRACTIONS[k].word, FRACTIONS[k].val), k + 1)

NormalizeFractions(phrase) == ApplyFractions(phrase, 1)

\* re.sub(r"\ba\s+", "", t) at position i
StripArticleStep(t, i, st) ==
    IF i < st.next THEN st
    ELSE IF Nth(t, i) = 97 /\ WordBoundary(t, i) /\ IsSpace(At(t, i + 1))
         THEN [out |-> st.out, next |-> SpaceEnd(t, i + 1)]
         ELSE [out |-> Append(st.out, Nth(t, i)), next |-> i + 1]

RECURSIVE StripArticleIn(_, _, _, _)
StripArticleIn(t, lo, hi, st) ==
    IF lo > hi THEN st
    ELSE IF lo = hi THEN StripArticleStep(t, lo, st)
    ELSE LET left == StripArticleIn(t, lo, (lo + hi) \div 2, st)
         IN  Then(left, StripArticleIn(t, (lo + hi) \div 2 + 1, hi, left))

\* A variant that drops the result of the substitution
StripArticleSkipped(t) == t

StripArticle(t) ==
    IF Contains(t, <<97>>)
    THEN StripArticleIn(t, 1, Len(t), [out |-> <<>>, next |-> 1]).out
    ELSE t

\* ({unit_re}) at position w: the first of the alternatives lo..hi, in the
\* order of the join, that occurs there
RECURSIVE UnitAtIn(_, _, _, _)
UnitAtIn(t, w, lo, hi) ==
    IF lo > hi THEN <<>>
    ELSE IF lo = hi
    THEN (IF StartsWithAt(t, w, Nth(UnitSpellings, lo))
          THEN <<Nth(UnitSpellings, lo)>>
          ELSE <<>>)
    ELSE OrElse(UnitAtIn(t, w, lo, (lo + hi) \div 2),
                UnitAtIn(t, w, (lo + hi) \div 2 + 1, hi))

UnitAt(t, w) == UnitAtIn(t, w, 1, Len(UnitSpellings))

\* (?:(\d+(?:\.\d+)?))?\s*({unit_re}) anchored at i.  The optional group is
\* tried with each end of the number, then skipped (candidate i).
DurationMatchOf(t, i, ne, u) ==
    IF u = <<>> THEN <<>>
    ELSE <<[start |-> i,
            qty_str |-> IF ne = i THEN <<>> ELSE <<SubSeq(t, i, ne - 1)>>,
            unit |-> Head(u)]>>

DurationMatchIn(t, i, ne, ws) ==
    FirstNonEmpty([k \in 1..Len(ws) |->
        DurationMatchOf(t, i, ne, UnitAt(t, Nth(ws, k)))])

\* nes holds the ends of the number in the order the engine tries them.
RECURSIVE DurationMatchAmong(_, _, _, _, _)
DurationMatchAmong(t, i, nes, lo, hi) ==
    IF lo > hi THEN <<>>
    ELSE IF lo = hi
    THEN DurationMatchIn(t, i, Nth(nes, lo), WsEnds(t, Nth(nes, lo), 0))
    ELSE OrElse(DurationMatchAmong(t, i, nes, lo, (lo + hi) \div 2),
                DurationMatchAmong(t, i, nes, (lo + hi) \div 2 + 1, hi))

DurationMatchFrom(t, i, nes) == DurationMatchAmong(t, i, nes, 1, Len(nes))

DurationMatchAt(t, i) == DurationMatchFrom(t, i, NumEnds(t, i) \o <<i>>)

\* re.search of the duration regex: the leftmost position in lo..hi with a match
RECURSIVE SearchDurationIn(_, _, _)
SearchDurationIn(t, lo, hi) ==
    IF lo > hi THEN <<>>
    ELSE IF lo = hi THEN DurationMatchAt(t, lo)
    ELSE OrElse(SearchDurationIn(t, lo, (lo + hi) \div 2),
                SearchDurationIn(t, (lo + hi) \div 2 + 1, hi))

SearchDuration(t) == SearchDurationIn(t, 1, Len(t))

(***************************************************************************)
(* The steps of human_limit_to_bucket and _parse_duration_seconds          *)
(***************************************************************************)
\* s = text.strip().lower()
NormalizeText(t) == Lower(Strip(t))

\* A variant that compares the whole text: s == "unlimited"
IsUnlimitedWholeText(t) == t = Unlimited

\* "unlimited" in s
IsUnlimited(t) == Contains(t, Unlimited)

\* float(msg_match.group(1))
CountFloat(t, m) == ParseFloat(SubSeq(t, m.start, m.g1end - 1))

\* int(x) raises OverflowError for the float infinity
IntOverflows(x) == x.inf

\* A variant that rounds half up: int(x + 0.5)
IntOfFloatRounded(x) ==
    IF x.e >= 0 THEN ShiftLeft(x.m, x.e)
    ELSE RoundHalfEven(ShiftRight(x.m, 0 - x.e - 1), TRUE)

\* int(x) of a finite float
IntOfFloat(x) == FloatTrunc(x)

\* capacity = int(float(msg_match.group(1)))
CapacityOf(t, m) == IntOfFloat(CountFloat(t, m))

\* period_phrase = period_match.group(1).strip()
PeriodPhraseOf(t, m) == Strip(SubSeq(t, m.g1start, m.g1end - 1))

\* qty = float(qty_str) if qty_str else 1.0; seconds = qty * UNIT_SECONDS[unit]
QtyOf(m) == IF m.qty_str = <<>> THEN FloatOfNat(<<1>>) ELSE ParseFloat(Head(m.qty_str))

SecondsOf(m) == FloatMulNat(QtyOf(m), UnitSecondsOf(m.unit))

\* _parse_duration_seconds(phrase): the seconds, or None where it raises
SecondsOfMatch(m) == IF m = <<>> THEN <<>> ELSE <<SecondsOf(Head(m))>>

ParseDurationSeconds(phrase) ==
    SecondsOfMatch(SearchDuration(StripArticle(NormalizeFractions(phrase))))

\* A variant without the zero check
IsZeroDurationNever(sec) == FALSE

\* if seconds == 0
IsZeroDuration(sec) == sec = FloatZero

\* A variant with the operands the other way round: seconds / capacity
RatePerSecInverted(cap, sec) ==
    IF cap = <<>> THEN Infinity
    ELSE IF sec.inf THEN Infinity
    ELSE Divide(sec, FloatOfNat(cap))

\* capacity / seconds
RatePerSec(cap, sec) == Divide(FloatOfNat(cap), sec)

(***************************************************************************)
(* The inputs: quota phrases put together from fragments                   *)
(***************************************************************************)
\* Counts 0..MaxCount and their tenfolds; period quantities 0..MaxQty.
MaxCount == 2
MaxQty == 3

\* The zeros after the 1 of a number too large for a double (10^309), and
\* the zeros between "0." and the 1 of a number that is still a subnormal
\* double (10^-321) and of one that is rounded to 0.0 (10^-324).
HugeZeros == 309
SubnormalZeros == 320
VanishingZeros == 323

\* str(n) for 0 <= n < 2^31
RECURSIVE DecimalDigits(_)
DecimalDigits(n) == IF n = 0 THEN <<>> ELSE Append(DecimalDigits(n \div 10), 48 + (n % 10))

Render(n) == IF n = 0 THEN <<48>> ELSE DecimalDigits(n)

Gaps == { <<>>, <<32>> }

CountToks ==
    { <<>> } \cup {Render(n) : n \in 0..MaxCount} \cup {Render(10 * n) : n \in 1..MaxCount}
    \cup {Render(n) \o <<46, 57>> : n \in 0..MaxCount}

\* <lead><count> <msg word> <separator> <period>, each part optional
QuotaPhrases ==
    { lead \o count \o g1 \o msg \o g1 \o sep \o g2 \o period :
        lead \in { <<>>, <<32, 85, 110, 108, 105, 109, 105, 116, 101, 100, 32>>, <<101, 118, 101, 114, 121, 32, 117, 115, 101, 114, 32, 103, 101, 116, 115, 32>>, <<112, 101, 114, 32>> },
        count \in CountToks,
        g1 \in Gaps,
        msg \in { <<>>, <<109, 115, 103>>, <<109, 115, 103, 115>>, <<109, 101, 115, 115, 97, 103, 101, 115>>, <<101, 109, 97, 105, 108, 115>>, <<117, 110, 108, 105, 109, 105, 116, 101, 100>> },
        sep \in { <<>> } \cup Range(Separators),
        g2 \in Gaps,
        period \in { <<>>, <<100, 97, 121, 32>>, <<51, 32, 104, 111, 117, 114, 115>>, <<48, 32, 115, 101, 99, 111, 110, 100, 115>> } }

QtyToks ==
    { <<>>, <<48, 46, 53>>, <<48, 46, 48>> } \cup {Render(n) : n \in 0..MaxQty}
    \cup {FRACTIONS[k].word : k \in 1..Len(FRACTIONS)}

\* "5 msgs per <quantity> <article> <unit>"
PeriodPhrases ==
    { <<53, 32, 109, 115, 103, 115, 32, 112, 101, 114, 32>> \o qty \o g \o art \o unit :
        qty \in QtyToks, g \in Gaps, art \in { <<>>, <<97, 32>> },
        unit \in Range(UnitSpellings) \cup { <<>>, <<102, 111, 114, 116, 110, 105, 103, 104, 116>>, <<120, 121, 122>> } }

\* Numbers at the edges of the doubles: more digits than a double holds, a
\* count beyond 2^31, a number that overflows and numbers that underflow.
LongNumbers ==
    { <<48, 46, 57, 57, 57, 57, 57, 57, 57, 57, 57, 57, 57, 57, 57, 57, 57, 57, 57, 57, 57, 57>>, <<57, 48, 48, 55, 49, 57, 57, 50, 53, 52, 55, 52, 48, 57, 57, 51>>, <<49, 46, 49>>,
      <<49>> \o Repeat(48, HugeZeros),
      <<48, 46>> \o Repeat(48, SubnormalZeros) \o <<49>>,
      <<48, 46>> \o Repeat(48, VanishingZeros) \o <<49>> }

NumberPhrases ==
    { n \o <<32, 109, 115, 103, 115, 32, 112, 101, 114, 32, 100, 97, 121>> : n \in LongNumbers }
    \cup { <<53, 32, 112, 101, 114, 32>> \o n \o <<32, 115>> : n \in LongNumbers }
    \cup { <<57, 48, 48, 55, 49, 57, 57, 50, 53, 52, 55, 52, 48, 57, 57, 51, 32, 112, 101, 114, 32>> \o n \o <<32, 104, 111, 117, 114, 115>> : n \in LongNumbers }

\* Characters beyond ASCII: digits of other scripts, white space that is
\* not " ", "\t" or "\n", letters that str.lower() changes, a capital sigma
\* at the end and inside of a word, letters next to a fraction word or to
\* the article.
UnicodePhrases ==
    { <<1635, 32, 109, 115, 103, 115, 32, 112, 101, 114, 32, 1634, 32, 100, 97, 121, 115>>,
      <<1635, 46, 1637, 32, 112, 101, 114, 32, 2407, 32, 104, 111, 117, 114>>,
      <<53>> \o <<13>> \o <<80, 69, 82>> \o <<160>> \o <<201, 65, 32, 87, 69, 69, 75>>,
      <<12>> \o <<53, 32, 112, 101, 114>> \o <<31, 8195>> \o <<97>> \o <<11>> \o <<100, 97, 121>> \o <<13, 10>>,
      <<53, 32, 112, 101, 114>> \o <<13>> \o <<10>> \o <<100, 97, 121>>,
      <<53, 32, 112, 101, 114, 32, 119, 101, 101, 75>>,
      <<53, 32, 112, 101, 114, 32, 304, 32, 115>>,
      <<927, 916, 927, 931, 32, 53, 32, 80, 69, 82, 32, 68, 65, 89>>,
      <<53, 32, 80, 69, 82, 32, 931, 913, 931, 39, 931, 46>>,
      <<85, 78, 76, 73, 77, 73, 84, 69, 68, 32, 927, 916, 927, 931>>,
      <<53, 32, 112, 101, 114, 32, 104, 97, 108, 102, 233, 32, 119, 101, 101, 107>>,
      <<53, 32, 112, 101, 114, 32, 233, 104, 97, 108, 102, 32, 119, 101, 101, 107>>,
      <<53, 32, 112, 101, 114, 32, 189, 32, 97, 32, 100, 97, 121>>,
      <<53, 32, 112, 101, 114, 32, 8531, 32, 97, 32, 100, 97, 121>>,
      <<53, 32, 112, 101, 114, 32, 223, 97, 32, 100, 97, 121>>,
      <<53, 32, 112, 101, 114, 32, 49, 178, 115>>,
      <<53, 178, 32, 112, 101, 114, 32, 115>> }

Inputs == QuotaPhrases \cup PeriodPhrases \cup NumberPhrases \cup UnicodePhrases

(***************************************************************************)
(* State                                                                   *)
(***************************************************************************)
VARIABLES
    text,           \* the argument of human_limit_to_bucket
    pc,             \* the statement the call is at
    s,              \* the normalized text
    msg_match,      \* the match of the count regex (optional)
    capacity,       \* the capacity (optional)
    period_match,   \* the match of the period regex (optional)
    period_phrase,  \* the period phrase (optional)
    norm,           \* norm of _parse_duration_seconds (optional)
    dur_match,      \* m of _parse_duration_seconds (optional)
    seconds,        \* the seconds of the period (optional)
    result,         \* the returned bucket (optional)
    outcome         \* "running", "returned" or the error raised

vars == <<text, pc, s, msg_match, capacity, period_match, period_phrase,
          norm, dur_match, seconds, result, outcome>>

Init ==
    /\ text \in Inputs
    /\ pc = "start"
    /\ s = <<>>
    /\ msg_match = <<>>
    /\ capacity = <<>>
    /\ period_match = <<>>
    /\ period_phrase = <<>>
    /\ norm = <<>>
    /\ dur_match = <<>>
    /\ seconds = <<>>
    /\ result = <<>>
    /\ outcome = "running"

\* raise ...
Raise(err) ==
    /\ outcome' = err
    /\ pc' = "done"
    /\ UNCHANGED <<text, s, capacity, period_match, period_phrase,
                   norm, dur_match, seconds, result>>

\* return {...}
Return(bucket) ==
    /\ result' = <<bucket>>
    /\ outcome' = "returned"
    /\ pc' = "done"
    /\ UNCHANGED <<text, s, msg_match, capacity, period_match, period_phrase,
                   norm, dur_match, seconds>>

Normalize ==
    /\ pc = "start"
    /\ s' = NormalizeText(text)
    /\ pc' = "unlimited"
    /\ UNCHANGED <<text, msg_match, capacity, period_match, period_phrase,
                   norm, dur_match, seconds, result, outcome>>

ReturnUnlimited ==
    /\ pc = "unlimited"
    /\ IsUnlimited(s)
    /\ Return([capacity |-> <<>>, rate_per_sec |-> FloatZero])

ExtractCount ==
    /\ pc = "unlimited"
    /\ ~IsUnlimited(s)
    /\ LET m == SearchCount(s)
       IN  /\ m # <<>>
           /\ ~IntOverflows(CountFloat(s, Head(m)))
           /\ msg_match' = m
           /\ capacity' = <<CapacityOf(s, Head(m))>>
    /\ pc' = "period"
    /\ UNCHANGED <<text, s, period_match, period_phrase, norm, dur_match,
                   seconds, result, outcome>>

RaiseCountNotFound ==
    /\ pc = "unlimited"
    /\ ~IsUnlimited(s)
    /\ SearchCount(s) = <<>>
    /\ UNCHANGED msg_match
    /\ Raise("CountNotFound")

\* int() of the float infinity: OverflowError, which is no ValueError
RaiseOverflow ==
    /\ pc = "unlimited"
    /\ ~IsUnlimited(s)
    /\ LET m == SearchCount(s)
       IN  /\ m # <<>>
           /\ IntOverflows(CountFloat(s, Head(m)))
           /\ msg_match' = m
    /\ Raise("OverflowError")

ExtractPeriod ==
    /\ pc = "period"
    /\ LET m == SearchPeriod(s)
       IN  /\ m # <<>>
           /\ period_match' = m
           /\ period_phrase' = <<PeriodPhraseOf(s, Head(m))>>
    /\ pc' = "fractions"
    /\ UNCHANGED <<text, s, msg_match, capacity, norm, dur_match, seconds,
                   result, outcome>>

RaisePeriodNotFound ==
    /\ pc = "period"
    /\ SearchPeriod(s) = <<>>
    /\ UNCHANGED msg_match
    /\ Raise("PeriodNotFound")

SubstituteFractions ==
    /\ pc = "fractions"
    /\ norm' = <<NormalizeFractions(period_phrase[1])>>
    /\ pc' = "article"
    /\ UNCHANGED <<text, s, msg_match, capacity, period_match, period_phrase,
                   dur_match, seconds, result, outcome>>

RemoveArticle ==
    /\ pc = "article"
    /\ norm' = <<StripArticle(norm[1])>>
    /\ pc' = "unit"
    /\ UNCHANGED <<text, s, msg_match, capacity, period_match, period_phrase,
                   dur_match, seconds, result, outcome>>

MatchUnit ==
    /\ pc = "unit"
    /\ LET m == SearchDuration(norm[1])
       IN  /\ m # <<>>
           /\ dur_match' = m
           /\ seconds' = <<SecondsOf(Head(m))>>
    /\ pc' = "rate"
    /\ UNCHANGED <<text, s, msg_match, capacity, period_match, period_phrase,
                   norm, result, outcome>>

RaiseDurationNotParseable ==
    /\ pc = "unit"
    /\ SearchDuration(norm[1]) = <<>>
    /\ UNCHANGED msg_match
    /\ Raise("DurationNotParseable")

RaiseZeroDuration ==
    /\ pc = "rate"
    /\ IsZeroDuration(seconds[1])
    /\ UNCHANGED msg_match
    /\ Raise("ZeroDuration")

ReturnBucket ==
    /\ pc = "rate"
    /\ ~IsZeroDuration(seconds[1])
    /\ Return([capacity |-> capacity,
               rate_per_sec |-> RatePerSec(capacity[1], seconds[1])])

Next ==
    \/ Normalize
    \/ ReturnUnlimited
    \/ ExtractCount
    \/ RaiseCountNotFound
    \/ RaiseOverflow
    \/ ExtractPeriod
    \/ RaisePeriodNotFound
    \/ SubstituteFractions
    \/ RemoveArticle
    \/ MatchUnit
    \/ RaiseDurationNotParseable
    \/ RaiseZeroDuration
    \/ ReturnBucket

Spec == Init /\ [][Next]_vars

(***************************************************************************)
(* Properties                                                              *)
(***************************************************************************)
\* w occurs in t at position i; w occurs in t
OccursAt(t, i, w) == i >= 1 /\ i + Len(w) - 1 <= Len(t) /\ SubSeq(t, i, i + Len(w) - 1) = w
Occurs(t, w) == \E i \in 1..Len(t) : OccursAt(t, i, w)

HasUnlimited == Occurs(s, Unlimited)

\* A returned rate is the float quotient cap / sec.
IsQuotient(r, cap, sec) == r = Divide(FloatOfNat(cap), sec)

\* tok is digits, or digits "." digits
IsDecimalToken(tok) ==
    /\ tok # <<>>
    /\ \A k \in 1..Len(tok) : IsDigit(tok[k]) \/ tok[k] = 46
    /\ Cardinality({k \in 1..Len(tok) : tok[k] = 46}) <= 1
    /\ IsDigit(tok[1]) /\ IsDigit(tok[Len(tok)])

\* The value of the digits of tok before its "."
IntegerPartOf(tok) ==
    NatOfDigits(DigitValues(
        SubSeq(tok, 1, Min({k \in 1..(Len(tok) + 1) : At(tok, k) \in {46, -1}}) - 1)))

\* The text the count regex captured
CountToken == SubSeq(s, msg_match[1].start, msg_match[1].g1end - 1)

\* A decimal of at most this many digits is below 2^53 and keeps its integer
\* part when it is rounded to a double.
ExactDigits == 15

\* C1: once the normalized text contains "unlimited", the call returns
\* {capacity: None, rate_per_sec: 0.0} without searching for a count, a period
\* or a unit, and raises no error, whatever else the text holds.
C1_UnlimitedShortcut ==
    (pc \notin {"start", "unlimited"} /\ HasUnlimited) =>
        /\ pc = "done"
        /\ outcome = "returned"
        /\ result = <<[capacity |-> <<>>, rate_per_sec |-> FloatZero]>>
        /\ msg_match = <<>> /\ period_match = <<>> /\ dur_match = <<>>

\* An upper-case, padded "unlimited" next to a count, a separator and a zero period
C1_Witness ==
    /\ pc = "done" /\ outcome = "returned" /\ HasUnlimited
    /\ text # s
    /\ Occurs(s, <<50, 46, 57>>) /\ Occurs(s, <<112, 101, 114, 32, 48, 32, 115, 101, 99, 111, 110, 100, 115>>)

\* C2 as stated: a returned bucket without capacity has rate exactly 0.0; one
\* with a capacity has rate capacity / seconds, and that rate is strictly positive.
C2_BucketInvariantStrict ==
    (pc = "done" /\ outcome = "returned") =>
        /\ result[1].capacity = <<>> => result[1].rate_per_sec = FloatZero
        /\ result[1].capacity # <<>> =>
            /\ seconds # <<>>
            /\ IsQuotient(result[1].rate_per_sec, result[1].capacity[1], seconds[1])
            /\ result[1].rate_per_sec # FloatZero

\* C2 amended: a returned bucket without capacity has rate exactly 0.0; one
\* with a capacity has the float quotient capacity / seconds over a non-zero
\* period as its rate, which is 0.0 exactly when the capacity is 0 or the
\* period is the float infinity, and strictly positive otherwise.
C2_BucketInvariant ==
    (pc = "done" /\ outcome = "returned") =>
        /\ result[1].capacity = <<>> => result[1].rate_per_sec = FloatZero
        /\ result[1].capacity # <<>> =>
            /\ seconds # <<>> /\ seconds[1] # FloatZero
            /\ IsQuotient(result[1].rate_per_sec, result[1].capacity[1], seconds[1])
            /\ result[1].rate_per_sec = FloatZero <=>
                 (result[1].capacity[1] = <<>> \/ seconds[1] = Infinity)

\* A bucket returned for a decimal count below 1: capacity 0, rate 0.0
C2_Witness ==
    /\ pc = "done" /\ outcome = "returned"
    /\ s = <<48, 46, 57, 32, 109, 115, 103, 115, 32, 112, 101, 114, 32, 51, 32, 104, 111, 117, 114, 115>>
    /\ result[1].capacity = << <<>> >>
    /\ result[1].rate_per_sec = FloatZero

\* C3: a period phrase "q u", q a number and u a spelling of UNIT_SECONDS with
\* value v, resolves to exactly q * v seconds ("1 month" to 2,592,000).
C3_QuantityTimesUnit ==
    \A j \in 1..Len(UNIT_SECONDS) :
        (/\ pc \in {"rate", "done"}
         /\ period_phrase # <<>>
         /\ Len(period_phrase[1]) >= Len(UNIT_SECONDS[j].unit) + 2
         /\ OccursAt(period_phrase[1],
                     Len(period_phrase[1]) - Len(UNIT_SECONDS[j].unit) + 1,
                     UNIT_SECONDS[j].unit)
         /\ period_phrase[1][Len(period_phrase[1]) - Len(UNIT_SECONDS[j].unit)] = 32
         /\ IsDecimalToken(SubSeq(period_phrase[1], 1,
                Len(period_phrase[1]) - Len(UNIT_SECONDS[j].unit) - 1)))
        => seconds =
            <<FloatMulNat(ParseFloat(SubSeq(period_phrase[1], 1,
                              Len(period_phrase[1]) - Len(UNIT_SECONDS[j].unit) - 1)),
                          UNIT_SECONDS[j].secs)>>

\* The text has a digit and no separator keyword starts after its first digit.
NoSeparatorAfterCount(t) ==
    /\ \E i \in 1..Len(t) : IsDigit(t[i])
    /\ \A j \in (Min({i \in 1..Len(t) : IsDigit(t[i])}) + 1)..Len(t) :
         \A k \in 1..Len(Separators) : ~OccursAt(t, j, Separators[k])

\* C4 as stated: a text with a count and no separator keyword after it (and
\* without "unlimited") fails with PeriodNotFound and returns no bucket.
C4_NoSeparatorIsPeriodNotFound ==
    (pc = "done" /\ ~HasUnlimited /\ NoSeparatorAfterCount(s)) =>
        outcome = "PeriodNotFound" /\ result = <<>>

\* C4 amended: a text with a count and no separator keyword after it (and
\* without "unlimited") fails with CountNotFound, before any period is looked
\* for, and returns no bucket.
C4_NoSeparatorIsCountNotFound ==
    (pc = "done" /\ ~HasUnlimited /\ NoSeparatorAfterCount(s)) =>
        /\ outcome = "CountNotFound"
        /\ result = <<>>
        /\ msg_match = <<>> /\ period_match = <<>>

\* "20 messages" has failed with CountNotFound
C4_Witness ==
    /\ pc = "done"
    /\ s = <<50, 48, 32, 109, 101, 115, 115, 97, 103, 101, 115>>
    /\ outcome = "CountNotFound"

\* C5: a period of exactly zero seconds ends in ZeroDuration without a bucket,
\* and no bucket with a capacity is ever computed from a zero period.
C5_ZeroDurationRaises ==
    /\ (pc = "done" /\ seconds # <<>> /\ seconds[1] = FloatZero) =>
            outcome = "ZeroDuration" /\ result = <<>>
    /\ (result # <<>> /\ result[1].capacity # <<>>) =>
            seconds # <<>> /\ seconds[1] # FloatZero

\* "10 messages per 0 seconds" has failed with ZeroDuration
C5_Witness ==
    /\ pc = "done"
    /\ s = <<49, 48, 32, 109, 101, 115, 115, 97, 103, 101, 115, 32, 112, 101, 114, 32, 48, 32, 115, 101, 99, 111, 110, 100, 115>>
    /\ seconds = <<FloatZero>>
    /\ outcome = "ZeroDuration"

\* C6 as stated: the capacity is the integer part of the decimal the count
\* regex captured (truncation, never rounding), and the returned rate is
\* computed from that capacity.
C6_CapacityIsIntegerPart ==
    capacity # <<>> =>
        /\ IsDecimalToken(CountToken)
        /\ capacity[1] = IntegerPartOf(CountToken)
        /\ result # <<>> =>
            /\ result[1].capacity = capacity
            /\ IsQuotient(result[1].rate_per_sec, IntegerPartOf(CountToken), seconds[1])

\* C6 amended: the capacity is the integer part of the double nearest to the
\* decimal the count regex captured (truncation of that double, never
\* rounding of it), which is the integer part of the decimal itself when the
\* token has at most 15 characters; the returned rate is computed from that
\* capacity; a decimal whose nearest double is infinite ends the call in an
\* OverflowError without a bucket.
C6_CapacityTruncates ==
    /\ capacity # <<>> =>
        /\ IsDecimalToken(CountToken)
        /\ capacity[1] = FloatTrunc(ParseFloat(CountToken))
        /\ Len(CountToken) <= ExactDigits => capacity[1] = IntegerPartOf(CountToken)
        /\ result # <<>> =>
            /\ result[1].capacity = capacity
            /\ IsQuotient(result[1].rate_per_sec,
                          FloatTrunc(ParseFloat(CountToken)), seconds[1])
    /\ outcome = "OverflowError" =>
        /\ msg_match # <<>> /\ capacity = <<>> /\ result = <<>>
        /\ ParseFloat(CountToken) = Infinity
    /\ (pc \notin {"start", "unlimited"} /\ msg_match # <<>>
                                        /\ ParseFloat(CountToken) = Infinity) =>
        outcome = "OverflowError"

\* "2.9 messages per day" has returned capacity 2 and rate 2 / 86400
C6_Witness ==
    /\ pc = "done" /\ outcome = "returned"
    /\ s = <<50, 46, 57, 32, 109, 101, 115, 115, 97, 103, 101, 115, 32, 112, 101, 114, 32, 100, 97, 121>>
    /\ CountToken = <<50, 46, 57>>
    /\ result[1] = [capacity |-> <<NatOfInt(2)>>,
                    rate_per_sec |-> Divide(FloatOfNat(NatOfInt(2)),
                                            FloatOfNat(NatOfInt(86400)))]

\* C7: for a period phrase "f a u", f a fraction word and u a unit spelling,
\* the fraction is replaced by its decimal while the article is still there,
\* the article is then removed, and the seconds are those of the phrase
\* "<decimal of f> u"; "half a week" gives 302400, as "0.5 weeks" does.
C7_FractionBeforeArticle ==
    /\ \A k \in 1..Len(FRACTIONS) : \A j \in 1..Len(UNIT_SECONDS) :
        period_phrase = <<FRACTIONS[k].word \o <<32, 97, 32>> \o UNIT_SECONDS[j].unit>> =>
            /\ pc = "article" =>
                norm = <<FRACTIONS[k].val \o <<32, 97, 32>> \o UNIT_SECONDS[j].unit>>
            /\ pc \in {"unit", "rate", "done"} =>
                norm = <<FRACTIONS[k].val \o <<32>> \o UNIT_SECONDS[j].unit>>
            /\ pc \in {"rate", "done"} =>
                /\ seconds # <<>>
                /\ seconds =
                     ParseDurationSeconds(FRACTIONS[k].val \o <<32>> \o UNIT_SECONDS[j].unit)
    /\ (period_phrase = << <<104, 97, 108, 102, 32, 97, 32, 119, 101, 101, 107>> >> /\ pc \in {"rate", "done"}) =>
            /\ seconds = <<FloatOfNat(NatOfInt(302400))>>
            /\ seconds = ParseDurationSeconds(<<48, 46, 53, 32, 119, 101, 101, 107, 115>>)

\* "5 msgs per half a week" has returned with a period of 302400 seconds
C7_Witness ==
    /\ pc = "done" /\ outcome = "returned"
    /\ period_phrase = << <<104, 97, 108, 102, 32, 97, 32, 119, 101, 101, 107>> >>
    /\ norm = << <<48, 46, 53, 32, 119, 101, 101, 107>> >>
    /\ seconds = <<FloatOfNat(NatOfInt(302400))>>

\* A spelling of UNIT_SECONDS occurs in p as a whole word.
HasWholeWordUnit(p) ==
    \E j \in 1..Len(UNIT_SECONDS) : \E i \in 1..Len(p) :
        /\ OccursAt(p, i, UNIT_SECONDS[j].unit)
        /\ WordBoundary(p, i)
        /\ WordBoundary(p, i + Len(UNIT_SECONDS[j].unit))

\* C8: a period phrase in which no spelling of UNIT_SECONDS occurs as a whole
\* word fails with DurationNotParseable and yields no bucket.
C8_WholeWordUnits ==
    (/\ pc \in {"rate", "done"}
     /\ period_phrase # <<>>
     /\ ~HasWholeWordUnit(period_phrase[1]))
    => outcome = "DurationNotParseable" /\ result = <<>>

\* C9: once the count regex has matched, PeriodNotFound is never raised.
C9_PeriodFoundAfterCount == msg_match # <<>> => outcome # "PeriodNotFound"

\* C10: when both regexes match, the separator of the period match is the one
\* that ends the count match, and the period phrase is the text after it.
C10_SameSeparator ==
    (msg_match # <<>> /\ period_match # <<>>) =>
        /\ period_match[1].sepEnd = msg_match[1].end
        /\ period_phrase =
             <<Strip(SubSeq(s, msg_match[1].end, period_match[1].g1end - 1))>>

====
